---- MODULE Spec2Model ----
(***************************************************************************)
(* pgdn-ws: the connection registry and fan-out dispatch of                *)
(* NotificationManager (src/pgdn_ws/manager.py), run by one asyncio event  *)
(* loop.  A coroutine runs without interruption from one await to the      *)
(* next; the awaits of the code are websocket.accept() and                 *)
(* websocket.send_json().  Each action below is one such uninterrupted     *)
(* stretch of code.                                                        *)
(***************************************************************************)
EXTENDS Integers, Sequences, FiniteSets, TLC

\* ---------------------------------------------------------------- universe
Handles == {"h1", "h2"}
Users == {"u1", "u2"}
Groups == {"g1"}
None == "None"

\* The calls made on the manager in one behaviour: connect(), disconnect() and
\* the four dispatch operations together.
MaxOps == 4
\* The dispatch calls that can be in flight at once.
CallIds == {1, 2}

\* A set iterates in the order of its hash-table slots; a handle keeps its slot.
Slot(h) == CASE h = "h1" -> 1 [] h = "h2" -> 2 [] OTHER -> 3

\* An identity is a dict: `keys` are the keys it holds.  {} is the empty dict.
Identity(keys, u, gs) == [keys |-> keys, user_id |-> u, groups |-> gs]
EmptyIdentity == Identity({}, None, {})
Identities ==
    {EmptyIdentity}
    \cup {Identity({"groups"}, None, Groups)}
    \cup {Identity({"user_id", "groups"}, u, {}) : u \in Users}
    \cup {Identity({"user_id", "groups"}, "u1", Groups)}

\* `not info` of Python: None (no entry) and the empty dict are both falsy.
Falsy(info) == info.keys = {}
\* info.get("user_id") and info.get("groups", [])
GetUserId(info) == IF "user_id" \in info.keys THEN info.user_id ELSE None
GetGroups(info) == IF "groups" \in info.keys THEN info.groups ELSE {}

VARIABLES
    user_connections,   \* dict user_id -> set of handles
    group_connections,  \* dict group_id -> set of handles
    connection_info,    \* dict handle -> identity
    conn,               \* per handle: "acking" while a connect() awaits its acknowledgement
    calls,              \* per call id: one dispatch call
    failedH,            \* handles on which a dispatch write has failed
    last,               \* what the latest step did: the call that ended, the writes issued
    ops,                \* how many calls were made on the manager
    threads,            \* per OS thread: the call it runs on the shared manager
    sched,              \* the event loops of a thread that calls a *_sync method
    cfg,                \* the rate limit of the one channel: calls, period
    now,                \* the reading of time.time()
    log,                \* the is_allowed() checks made so far, in order
    bucket,             \* InMemoryRateLimiter._buckets[key]
    lock,               \* the thread that holds InMemoryRateLimiter._lock
    workers,            \* per thread: its is_allowed() call on the shared limiter
    zset,               \* the sorted set of the key in Redis (its scores)
    expireAt,           \* the time at which Redis expires the key
    config_data,        \* what load_config() returns: per channel, its raw rate_limits entry
    rate_limit_manager, \* notify.py's _rate_limit_manager: its config and its limiter's buckets
    notified,           \* the notify() calls made: their number, the latest result, the tallies
    ep,                 \* one run of websocket_endpoint on a websocket
    ack                 \* per handle: a connect() has "started" to write its
                        \* acknowledgement, or has "written" it

syncVars == <<sched>>
limiterVars == <<cfg, now, log, bucket, lock, workers, zset, expireAt>>
appVars == <<config_data, rate_limit_manager, notified, ep, ack>>
vars == <<user_connections, group_connections, connection_info, conn, calls, failedH, last,
          ops, threads, syncVars, limiterVars, appVars>>

\* The three indexes as one value.
Registry == [uc |-> user_connections, gc |-> group_connections, ci |-> connection_info]

\* ------------------------------------------------------------ registry code
\* connect(), lines 27-43: the registration, after accept() has returned.
Register(r, h, info) ==
    LET uid == GetUserId(info)
        gs == GetGroups(info)
    IN [ci |-> [x \in DOMAIN r.ci \cup {h} |-> IF x = h THEN info ELSE r.ci[x]],
        uc |-> IF uid # None
               THEN [u \in DOMAIN r.uc \cup {uid} |->
                       IF u = uid
                       THEN (IF u \in DOMAIN r.uc THEN r.uc[u] ELSE {}) \cup {h}
                       ELSE r.uc[u]]
               ELSE r.uc,
        gc |-> [g \in DOMAIN r.gc \cup gs |->
                  (IF g \in DOMAIN r.gc THEN r.gc[g] ELSE {})
                  \cup (IF g \in gs THEN {h} ELSE {})]]

UnregisterOrSweep(r, h) ==
    IF h \notin DOMAIN r.ci \/ Falsy(r.ci[h])
    THEN [uc |-> [u \in {x \in DOMAIN r.uc : r.uc[x] \ {h} # {}} |-> r.uc[u] \ {h}],
          gc |-> [g \in {x \in DOMAIN r.gc : r.gc[x] \ {h} # {}} |-> r.gc[g] \ {h}],
          ci |-> [x \in DOMAIN r.ci \ {h} |-> r.ci[x]]]
    ELSE LET uid == GetUserId(r.ci[h])
             gs == GetGroups(r.ci[h])
             ucKeep == {u \in DOMAIN r.uc : ~(u = uid /\ r.uc[u] \ {h} = {})}
             gcKeep == {g \in DOMAIN r.gc : ~(g \in gs /\ r.gc[g] \ {h} = {})}
         IN [uc |-> [u \in ucKeep |-> IF u = uid THEN r.uc[u] \ {h} ELSE r.uc[u]],
             gc |-> [g \in gcKeep |-> IF g \in gs THEN r.gc[g] \ {h} ELSE r.gc[g]],
             ci |-> [x \in DOMAIN r.ci \ {h} |-> r.ci[x]]]

\* A disconnect() without the loop over the groups (lines 71-75).
UnregisterUserOnly(r, h) ==
    IF h \notin DOMAIN r.ci \/ Falsy(r.ci[h])
    THEN r
    ELSE LET uid == GetUserId(r.ci[h])
             ucKeep == {u \in DOMAIN r.uc : ~(u = uid /\ r.uc[u] \ {h} = {})}
         IN [uc |-> [u \in ucKeep |-> IF u = uid THEN r.uc[u] \ {h} ELSE r.uc[u]],
             gc |-> r.gc,
             ci |-> [x \in DOMAIN r.ci \ {h} |-> r.ci[x]]]

\* disconnect(), lines 55-80.
Unregister(r, h) ==
    IF h \notin DOMAIN r.ci \/ Falsy(r.ci[h])
    THEN r
    ELSE LET uid == GetUserId(r.ci[h])
             gs == GetGroups(r.ci[h])
             ucKeep == {u \in DOMAIN r.uc : ~(u = uid /\ r.uc[u] \ {h} = {})}
             gcKeep == {g \in DOMAIN r.gc : ~(g \in gs /\ r.gc[g] \ {h} = {})}
         IN [uc |-> [u \in ucKeep |-> IF u = uid THEN r.uc[u] \ {h} ELSE r.uc[u]],
             gc |-> [g \in gcKeep |-> IF g \in gs THEN r.gc[g] \ {h} ELSE r.gc[g]],
             ci |-> [x \in DOMAIN r.ci \ {h} |-> r.ci[x]]]

\* `for conn in dead_connections: self.disconnect(conn)`, lines 121-122, 153-154.
RECURSIVE UnregisterAll(_, _)
UnregisterAll(r, dead) ==
    IF dead = {} THEN r
    ELSE LET h == CHOOSE x \in dead : \A y \in dead : Slot(x) <= Slot(y)
         IN UnregisterAll(Unregister(r, h), dead \ {h})

\* get_stats(), lines 248-255 (total_connections left out).
GetStats(r) ==
    [total_users |-> Cardinality(DOMAIN r.uc), groups |-> DOMAIN r.gc, users |-> DOMAIN r.uc]

\* h is in some index of the registry.
InUserIndex(r, h) == \E u \in DOMAIN r.uc : h \in r.uc[u]
InGroupIndex(r, h) == \E g \in DOMAIN r.gc : h \in r.gc[g]
Present(r, h) == InUserIndex(r, h) \/ InGroupIndex(r, h) \/ h \in DOMAIN r.ci

\* --------------------------------------------------------- delivery loops
\* `for websocket in self._user_connections[user_id]` (lines 112-118) and the
\* same loop over a group (146-150).  The iterator remembers the size of the
\* set (used) and its position (the slot of cur); `detached` says that the set
\* it iterates was emptied and deleted from the dict, so it is no longer the
\* set a later connect() creates under the same key.
Index(r, kind) == IF kind = "user" THEN r.uc ELSE r.gc

After(S, pos) == {h \in S : Slot(h) > pos}
FirstOf(S) == CHOOSE h \in S : \A x \in S : Slot(h) <= Slot(x)

MissingKeyLoop(kind, key) ==
    [kind |-> kind, key |-> key, st |-> "raised", cur |-> None, used |-> 0,
     detached |-> FALSE, dead |-> {}]

NoLoop(kind, key) ==
    [kind |-> kind, key |-> key, st |-> "returned", cur |-> None, used |-> 0,
     detached |-> FALSE, dead |-> {}]

\* The call up to its first send_json: lines 94-114, 133-148.
StartLoop(r, kind, key) ==
    IF key \notin DOMAIN Index(r, kind)
    THEN NoLoop(kind, key)
    ELSE [kind |-> kind, key |-> key, st |-> "write",
          cur |-> FirstOf(Index(r, kind)[key]),
          used |-> Cardinality(Index(r, kind)[key]),
          detached |-> FALSE, dead |-> {}]

\* The iterator's size check: "Set changed size during iteration".
SizeChanged(r, lp) ==
    \/ lp.detached
    \/ lp.key \notin DOMAIN Index(r, lp.kind)
    \/ Cardinality(Index(r, lp.kind)[lp.key]) # lp.used

\* send_json on lp.cur has returned (ok) or raised (~ok): lines 114-118, then
\* the next turn of the loop up to the next send_json, or the end of the loop.
\* The cleanup of lines 121-122 is applied by the action (LoopCleanup).
ResumeLoop(r, lp, ok) ==
    LET dead == IF ok THEN lp.dead ELSE lp.dead \cup {lp.cur}
    IN IF SizeChanged(r, lp)
       THEN [lp EXCEPT !.st = "raised", !.dead = dead, !.cur = None]
       ELSE LET rest == After(Index(r, lp.kind)[lp.key], Slot(lp.cur))
            IN IF rest = {}
               THEN [lp EXCEPT !.st = "returned", !.dead = dead, !.cur = None]
               ELSE [lp EXCEPT !.dead = dead, !.cur = FirstOf(rest)]

\* The registry after the loop's step: the dead connections are disconnected
\* only when the loop has run to its end.
LoopCleanup(r, lp) == IF lp.st = "returned" THEN UnregisterAll(r, lp.dead) ELSE r

\* A running iterator loses its set when the key is deleted from the dict.
DetachLoop(lp, rOld, rNew) ==
    IF lp.st = "write"
       /\ lp.key \in DOMAIN Index(rOld, lp.kind)
       /\ lp.key \notin DOMAIN Index(rNew, lp.kind)
    THEN [lp EXCEPT !.detached = TRUE]
    ELSE lp

TargetsOf(r, kind, key) ==
    IF key \in DOMAIN Index(r, kind) THEN Index(r, kind)[key] ELSE {}

\* What a change of the registry by another task (rOld to rNew) does to the
\* dispatch calls in flight: their iterators, and the record of it in the call
\* (ext: the registry was changed under the call; closed: these handles were
\* taken out of a set the call iterates).
Detach(cs, rOld, rNew) ==
    [c \in DOMAIN cs |->
        IF cs[c].st = "idle" THEN cs[c]
        ELSE [cs[c] EXCEPT
                !.loops = [i \in DOMAIN cs[c].loops |-> DetachLoop(cs[c].loops[i], rOld, rNew)],
                !.ext = @ \/ rOld # rNew,
                !.closed = @ \cup UNION {
                    TargetsOf(rOld, cs[c].loops[i].kind, cs[c].loops[i].key)
                    \ TargetsOf(rNew, cs[c].loops[i].kind, cs[c].loops[i].key)
                    : i \in DOMAIN cs[c].loops}]]

\* ---------------------------------------------------------- dispatch calls
\* got, bad: the handles whose write returned, raised; targets: the handles of
\* the target when the call was made.
IdleCall ==
    [kind |-> "none", st |-> "idle", excl |-> {}, loops |-> <<>>, tasks |-> <<>>,
     got |-> {}, bad |-> {}, targets |-> {}, ext |-> FALSE, closed |-> {}]

\* A sequence of the elements of a set of handles, in iteration order.
RECURSIVE InOrder(_)
InOrder(S) == IF S = {} THEN <<>> ELSE <<FirstOf(S)>> \o InOrder(S \ {FirstOf(S)})

UserOrder == <<"u1", "u2">>

\* broadcast(), lines 168-172: one _send_to_websocket coroutine per handle of
\* every user that is not excluded, created without running any of them.
RECURSIVE BroadcastTargets(_, _, _)
BroadcastTargets(r, excl, i) ==
    IF i > Len(UserOrder) THEN <<>>
    ELSE (IF UserOrder[i] \in DOMAIN r.uc /\ UserOrder[i] \notin excl
          THEN InOrder(r.uc[UserOrder[i]])
          ELSE <<>>) \o BroadcastTargets(r, excl, i + 1)

BroadcastTasks(r, excl) ==
    LET hs == BroadcastTargets(r, excl, 1)
    IN [i \in DOMAIN hs |-> [h |-> hs[i], st |-> "pending"]]

LoopsDone(loops) == \A i \in DOMAIN loops : loops[i].st \in {"returned", "raised"}
TasksDone(tasks) == \A i \in DOMAIN tasks : tasks[i].st = "done"

\* How the call ends for its caller.  send_to_user and send_to_group are the
\* loop itself; send_to_users (line 129) and broadcast (line 174) gather with
\* return_exceptions=True.
CallStatus(kind, loops, tasks) ==
    CASE kind \in {"user", "group"} ->
            IF loops[1].st = "write" THEN "running" ELSE loops[1].st
      [] kind = "users" -> IF LoopsDone(loops) THEN "returned" ELSE "running"
      [] OTHER -> IF TasksDone(tasks) THEN "returned" ELSE "running"

\* The handles the loops i of a call are writing to.
WritingIn(loops, I) == {loops[i].cur : i \in {j \in I : loops[j].st = "write"}}

\* ------------------------------------------------------------------ actions
\* Values of `last`.  op: "call", a dispatch call was made and is in flight
\* (call); "dispatch", a dispatch call ended (call, st: "returned" or "raised");
\* "connect", a connect() ended (st, ackFailed: its acknowledgement could not
\* be written); "other".  late: the handles written in this step after a
\* write to them had failed; dup: those written a second time by one call.
Step(op, st, ackFailed, call, late, dup) ==
    [op |-> op, st |-> st, ackFailed |-> ackFailed, call |-> call,
     late |-> late, dup |-> dup]
Other == Step("other", "none", FALSE, IdleCall, {}, {})
ConnectEnded(st, ackFailed) == Step("connect", st, ackFailed, IdleCall, {}, {})

\* A thread of the process and the call it runs.  pc names the line of
\* manager.py the thread executes next; h, info, key, todo and dead are the
\* locals websocket, info / user_info, user_id / group_id, the groups still to
\* loop over and the dead_connections still to disconnect; res is how the
\* thread's call ended.
Threads == {"t1", "t2"}
IdleThread ==
    [op |-> "none", pc |-> "idle", h |-> None, info |-> EmptyIdentity, key |-> None,
     todo |-> {}, dead |-> {}, res |-> "none"]

\* No *_sync call is made: the thread has no event loop (a loop is a number
\* from 1; NoEventLoop is Python's None).
NoEventLoop == 0
NoSched ==
    [current |-> NoEventLoop, running |-> NoEventLoop, closed |-> {}, made |-> 0,
     pc |-> "idle", kind |-> "none", was |-> NoEventLoop, inLoop |-> FALSE,
     loop |-> NoEventLoop, exc |-> "none",
     res |-> "none", runs |-> 0, done |-> 0, wrote |-> [h \in Handles |-> 0]]
InitSync == sched = NoSched

\* The rate limiters, constructed and never called (rate_limit.py 27-29, 71-90).
Workers == {"w1", "w2", "w3"}
NoBucket == [exists |-> FALSE, tokens |-> [h |-> 0, m |-> 0, l |-> 0], last_refill |-> 0]
\* The key of the sliding window has no time to live (or does not exist).
NoExpiry == -1

IdleWorker == [pc |-> "idle", ok |-> FALSE, had |-> [h |-> 0, m |-> 0, l |-> 0]]
InitLimiter ==
    /\ cfg = [calls |-> 1, period |-> 1]
    /\ now = 0
    /\ log = <<>>
    /\ bucket = NoBucket
    /\ lock = None
    /\ workers = [w \in Workers |-> IdleWorker]
    /\ zset = {}
    /\ expireAt = NoExpiry

\* notify() and websocket_endpoint, never called.
Channels == {"slack", "email"}
Absent == [kind |-> "absent", calls |-> [t |-> "int", v |-> 0], period |-> [t |-> "int", v |-> 0]]
NoLimit == [calls |-> 0, period |-> 0]
NoRateLimitManager ==
    [made |-> FALSE, enabled |-> FALSE, limits |-> [ch \in {} |-> NoLimit],
     buckets |-> [k \in {} |-> NoBucket]]
NoResult ==
    [fault |-> "none", success |-> "none", error |-> "none", type |-> "none",
     channel |-> "none", checked |-> FALSE, consulted |-> FALSE, allowed |-> FALSE,
     invoked |-> FALSE]
\* message.get("timestamp") of a message without the key: None.
NoTimestamp == 0
NoFrame == [kind |-> "none", keys |-> {}, type |-> "none", timestamp |-> NoTimestamp]
IdleEndpoint ==
    [pc |-> "idle", token |-> FALSE, user_info |-> EmptyIdentity, authed |-> "none",
     accepts |-> 0, closes |-> 0, sent |-> <<>>, handled |-> <<>>, handlers |-> {},
     frames |-> 0, frame |-> NoFrame, sendok |-> TRUE]
InitApp ==
    /\ config_data = [ch \in Channels |-> Absent]
    /\ rate_limit_manager = NoRateLimitManager
    /\ notified = [n |-> 0, result |-> NoResult,
                   allowed |-> [ch \in Channels |-> 0], invoked |-> [ch \in Channels |-> 0]]
    /\ ep = IdleEndpoint
    /\ ack = [h \in Handles |-> "none"]

\* A manager with no connection.
InitManager ==
    /\ user_connections = [u \in {} |-> {}]
    /\ group_connections = [g \in {} |-> {}]
    /\ connection_info = [h \in {} |-> EmptyIdentity]
    /\ conn = [h \in Handles |-> "idle"]
    /\ calls = [c \in CallIds |-> IdleCall]
    /\ failedH = {}
    /\ last = Other
    /\ ops = 0
    /\ threads = [t \in Threads |-> IdleThread]

Init == InitManager /\ InitSync /\ InitLimiter /\ InitApp

SetRegistry(r) ==
    /\ user_connections' = r.uc
    /\ group_connections' = r.gc
    /\ connection_info' = r.ci

\* One more call on the manager.
Invoke == ops < MaxOps /\ ops' = ops + 1

\* connect(websocket, user_info), lines 23-48, up to the send_json of the
\* acknowledgement: the handle is registered and the acknowledgement is being
\* written.  (When accept() raises instead, connect() raises before it has
\* touched the manager: no variable changes.)
Connect(h, info) ==
    /\ conn[h] = "idle"
    /\ Invoke
    /\ SetRegistry(Register(Registry, h, info))
    /\ conn' = [conn EXCEPT ![h] = "acking"]
    /\ calls' = Detach(calls, Registry, Register(Registry, h, info))
    /\ failedH' = failedH \ {h}
    /\ last' = Other
    /\ ack' = [ack EXCEPT ![h] = IF @ = "written" THEN @ ELSE "started"]
    /\ UNCHANGED <<threads, syncVars, limiterVars, config_data, rate_limit_manager,
                   notified, ep>>

\* _send_to_websocket of the acknowledgement, lines 82-88, and connect's return.
AckDone(h, ok) ==
    /\ conn[h] = "acking"
    /\ LET r == IF ok THEN Registry ELSE Unregister(Registry, h)
       IN /\ SetRegistry(r)
          /\ calls' = Detach(calls, Registry, r)
    /\ conn' = [conn EXCEPT ![h] = "idle"]
    /\ last' = ConnectEnded("returned", ~ok)
    /\ ack' = [ack EXCEPT ![h] = IF ok THEN "written" ELSE @]
    /\ UNCHANGED <<failedH, ops, threads, syncVars, limiterVars, config_data,
                   rate_limit_manager, notified, ep>>

\* disconnect(websocket), lines 55-80, called by the endpoint (router.py 75) or
\* by any other task.
Disconnect(h) ==
    /\ Invoke
    /\ LET r == Unregister(Registry, h)
       IN /\ SetRegistry(r)
          /\ calls' = Detach(calls, Registry, r)
    /\ last' = Other
    /\ UNCHANGED <<conn, failedH, threads, syncVars, limiterVars, appVars>>

\* A dispatch call takes the lowest free call id.
NextCall(c) ==
    /\ calls[c].st = "idle"
    /\ \A d \in CallIds : d < c => calls[d].st # "idle"
    /\ Invoke

\* The step of call c that leaves it as `call`: a call that has ended moves to
\* `last` and frees its id.  `issued` are the handles whose send_json the step has called.
CallStep(cs, c, call, issued, dup) ==
    /\ calls' = [cs EXCEPT ![c] = IF call.st \in {"returned", "raised"} THEN IdleCall ELSE call]
    /\ last' = IF call.st \in {"returned", "raised"}
               THEN Step("dispatch", call.st, FALSE, call, issued \cap failedH, dup)
               ELSE IF calls[c].st = "idle"
               THEN Step("call", "none", FALSE, call, issued \cap failedH, dup)
               ELSE Step("other", "none", FALSE, IdleCall, issued \cap failedH, dup)

Started(c, kind, loops, tasks, excl, targets) ==
    LET st == IF kind = "broadcast" /\ tasks # <<>>
              THEN "pending"
              ELSE CallStatus(kind, loops, tasks)
        call == [kind |-> kind, st |-> st, excl |-> excl, loops |-> loops, tasks |-> tasks,
                 got |-> {}, bad |-> {}, targets |-> targets, ext |-> FALSE, closed |-> {}]
        first == WritingIn(loops, DOMAIN loops)
        dup == {h \in first : Cardinality({i \in DOMAIN loops : loops[i].cur = h}) > 1}
    IN /\ CallStep(calls, c, call, first, dup)
       /\ UNCHANGED <<user_connections, group_connections, connection_info, conn,
                      failedH, threads, syncVars, limiterVars, appVars>>

\* send_to_user(user_id, message), lines 90-114.
SendToUser(c, u) ==
    /\ NextCall(c)
    /\ Started(c, "user", <<StartLoop(Registry, "user", u)>>, <<>>, {},
               TargetsOf(Registry, "user", u))

\* send_to_group(group_id, message), lines 131-148.
SendToGroup(c, g) ==
    /\ NextCall(c)
    /\ Started(c, "group", <<StartLoop(Registry, "group", g)>>, <<>>, {},
               TargetsOf(Registry, "group", g))

\* send_to_users(user_ids, message), lines 124-129: the gathered send_to_user
\* coroutines start one after the other, each running to its first send_json.
SendToUsers(c, ids) ==
    /\ NextCall(c)
    /\ Started(c, "users", [i \in DOMAIN ids |-> StartLoop(Registry, "user", ids[i])],
               <<>>, {},
               UNION {TargetsOf(Registry, "user", ids[i]) : i \in DOMAIN ids})

\* broadcast(message, exclude_users), lines 156-174, up to the await of gather.
Broadcast(c, excl) ==
    /\ NextCall(c)
    /\ Started(c, "broadcast", <<>>, BroadcastTasks(Registry, excl), excl,
               UNION {TargetsOf(Registry, "user", u) : u \in Users \ excl})

\* The gathered _send_to_websocket coroutines start: each calls send_json.
RunBroadcast(c) ==
    /\ calls[c].st = "pending"
    /\ LET tasks == [i \in DOMAIN calls[c].tasks |-> [calls[c].tasks[i] EXCEPT !.st = "write"]]
           hs == {tasks[i].h : i \in DOMAIN tasks}
           dup == {h \in hs : Cardinality({i \in DOMAIN tasks : tasks[i].h = h}) > 1}
       IN CallStep(calls, c, [calls[c] EXCEPT !.tasks = tasks, !.st = "running"], hs, dup)
    /\ UNCHANGED <<user_connections, group_connections, connection_info, conn,
                   failedH, ops, threads, syncVars, limiterVars, appVars>>

\* A send_json of a delivery loop returns or raises, and the loop runs on to
\* its next send_json, to its end (lines 120-122, 152-154) or to the
\* iterator's RuntimeError.
WriteDone(c, i, ok) ==
    /\ i \in DOMAIN calls[c].loops
    /\ calls[c].loops[i].st = "write"
    /\ LET lp == calls[c].loops[i]
           lp2 == ResumeLoop(Registry, lp, ok)
           r == LoopCleanup(Registry, lp2)
           loops == [calls[c].loops EXCEPT ![i] = lp2]
           call == [calls[c] EXCEPT
                      !.loops = loops,
                      !.st = CallStatus(calls[c].kind, loops, <<>>),
                      !.got = IF ok THEN @ \cup {lp.cur} ELSE @,
                      !.bad = IF ok THEN @ ELSE @ \cup {lp.cur}]
           issued == IF lp2.st = "write" THEN {lp2.cur} ELSE {}
           before == calls[c].got \cup calls[c].bad
                     \cup WritingIn(calls[c].loops, DOMAIN calls[c].loops)
       IN /\ SetRegistry(r)
          /\ CallStep(Detach(calls, Registry, r), c,
                      [call EXCEPT !.loops = [j \in DOMAIN loops |->
                                                DetachLoop(loops[j], Registry, r)]],
                      issued, issued \cap before)
          /\ failedH' = IF ok THEN failedH ELSE failedH \cup {lp.cur}
    /\ UNCHANGED <<conn, ops, threads, syncVars, limiterVars, appVars>>

\* _send_to_websocket of a broadcast, lines 82-88: send_json returns, or it
\* raises and the handle is disconnected.
TaskDone(c, i, ok) ==
    /\ i \in DOMAIN calls[c].tasks
    /\ calls[c].tasks[i].st = "write"
    /\ LET h == calls[c].tasks[i].h
           r == IF ok THEN Registry ELSE Unregister(Registry, h)
           tasks == [calls[c].tasks EXCEPT ![i].st = "done"]
           call == [calls[c] EXCEPT
                      !.tasks = tasks,
                      !.st = CallStatus("broadcast", <<>>, tasks),
                      !.got = IF ok THEN @ \cup {h} ELSE @,
                      !.bad = IF ok THEN @ ELSE @ \cup {h}]
       IN /\ SetRegistry(r)
          /\ CallStep(Detach(calls, Registry, r), c, call, {}, {})
          /\ failedH' = IF ok THEN failedH ELSE failedH \cup {h}
    /\ UNCHANGED <<conn, ops, threads, syncVars, limiterVars, appVars>>

IdLists == {<<a, b>> : a \in Users, b \in Users}

\* Every step of the manager with the dispatch calls taking their ids from C.
NextWith(C) ==
    \/ \E h \in Handles, info \in Identities : Connect(h, info)
    \/ \E h \in Handles, ok \in BOOLEAN : AckDone(h, ok)
    \/ \E h \in Handles : Disconnect(h)
    \/ \E c \in C, u \in Users : SendToUser(c, u)
    \/ \E c \in C, g \in Groups : SendToGroup(c, g)
    \/ \E c \in C, ids \in IdLists : SendToUsers(c, ids)
    \/ \E c \in C, excl \in SUBSET Users : Broadcast(c, excl)
    \/ \E c \in C : RunBroadcast(c)
    \/ \E c \in C, i \in 1..4, ok \in BOOLEAN : WriteDone(c, i, ok)
    \/ \E c \in C, i \in 1..4, ok \in BOOLEAN : TaskDone(c, i, ok)

\* connect() and disconnect() calls only.
NextRegistry ==
    \/ \E h \in Handles, info \in Identities : Connect(h, info)
    \/ \E h \in Handles, ok \in BOOLEAN : AckDone(h, ok)
    \/ \E h \in Handles : Disconnect(h)
SpecRegistry == Init /\ [][NextRegistry]_vars

\* connect(), disconnect() and one send_to_user at a time.
NextUserSend ==
    \/ \E h \in Handles, info \in Identities : Connect(h, info)
    \/ \E h \in Handles, ok \in BOOLEAN : AckDone(h, ok)
    \/ \E h \in Handles : Disconnect(h)
    \/ \E u \in Users : SendToUser(1, u)
    \/ \E ok \in BOOLEAN : WriteDone(1, 1, ok)
SpecUserSend == Init /\ [][NextUserSend]_vars

\* One dispatch call at a time: the caller awaits each call before the next.
Next == NextWith({1})
Spec == Init /\ [][Next]_vars

\* send_to_user and send_to_group calls from two tasks, in flight together.
NextConc ==
    \/ \E h \in Handles, info \in Identities : Connect(h, info)
    \/ \E h \in Handles, ok \in BOOLEAN : AckDone(h, ok)
    \/ \E h \in Handles : Disconnect(h)
    \/ \E c \in CallIds, u \in Users : SendToUser(c, u)
    \/ \E c \in CallIds, g \in Groups : SendToGroup(c, g)
    \/ \E c \in CallIds, i \in 1..4, ok \in BOOLEAN : WriteDone(c, i, ok)
SpecConc == Init /\ [][NextConc]_vars

\* ------------------------------------------------------------------ threads
\* The same manager called from several OS threads (send_to_user_sync runs
\* send_to_user in an event loop of its own, lines 177-188; the manager takes
\* no lock).  A thread can be preempted between any two statements: each
\* action below is one statement of connect(), disconnect() or send_to_user().
DictSet(d, k, v) == [x \in DOMAIN d \cup {k} |-> IF x = k THEN v ELSE d[x]]
DictDel(d, k) == [x \in DOMAIN d \ {k} |-> d[x]]

\* The registries that connect() calls made one after the other leave: h1
\* connected with identity i1 (if c1), then h2 with i2 (if c2).
RegistryAfter(c1, i1, c2, i2) ==
    LET r0 == [uc |-> [u \in {} |-> {}], gc |-> [g \in {} |-> {}],
               ci |-> [h \in {} |-> EmptyIdentity]]
        r1 == IF c1 THEN Register(r0, "h1", i1) ELSE r0
    IN IF c2 THEN Register(r1, "h2", i2) ELSE r1

InitThreads ==
    /\ \E c1, c2 \in BOOLEAN, i1, i2 \in Identities :
          /\ user_connections = RegistryAfter(c1, i1, c2, i2).uc
          /\ group_connections = RegistryAfter(c1, i1, c2, i2).gc
          /\ connection_info = RegistryAfter(c1, i1, c2, i2).ci
    /\ conn = [h \in Handles |-> "idle"]
    /\ calls = [c \in CallIds |-> IdleCall]
    /\ failedH = {}
    /\ last = Other
    /\ ops = 0
    /\ threads = [t \in Threads |-> IdleThread]
    /\ InitSync
    /\ InitLimiter
    /\ InitApp

\* A thread's step: its new record, the rest of the model untouched.
ThreadStep(t, th) ==
    /\ threads' = [threads EXCEPT ![t] = th]
    /\ UNCHANGED <<conn, calls, failedH, last, ops, syncVars, limiterVars, appVars>>
RegistryUnchanged == UNCHANGED <<user_connections, group_connections, connection_info>>

\* The thread's call returns, or raises exc to its caller.
Ends(th, res) == [th EXCEPT !.pc = "done", !.res = res]
\* disconnect() returns: to the cleanup loop of send_to_user (lines 121-122),
\* which disconnects the next dead connection, or to the end of the call.
Returns(th) ==
    IF th.dead = {}
    THEN Ends(th, "returned")
    ELSE [th EXCEPT !.pc = "d57", !.h = FirstOf(th.dead), !.dead = @ \ {FirstOf(th.dead)}]
NextGroup(todo) == CHOOSE g \in todo : TRUE

\* connect(), lines 25-31: accept() returns and the identity is stored.  A
\* handle is connected once, by one thread.
TConnect(t, h, info) ==
    /\ threads[t].pc = "idle"
    /\ h \notin DOMAIN connection_info
    /\ \A o \in Threads : ~(threads[o].op = "connect" /\ threads[o].h = h)
    /\ connection_info' = DictSet(connection_info, h, info)
    /\ UNCHANGED <<user_connections, group_connections>>
    /\ ThreadStep(t, [IdleThread EXCEPT !.op = "connect", !.pc = "c34", !.h = h,
                                         !.info = info, !.key = GetUserId(info)])

\* lines 34-35: `if user_id:` and `if user_id not in self._user_connections:`
TConnUserCheck(t) ==
    /\ threads[t].pc = "c34"
    /\ RegistryUnchanged
    /\ ThreadStep(t, [threads[t] EXCEPT
          !.pc = IF threads[t].key = None THEN "c40"
                 ELSE IF threads[t].key \notin DOMAIN user_connections THEN "c36"
                 ELSE "c37",
          !.todo = GetGroups(threads[t].info)])

\* line 36: self._user_connections[user_id] = set()
TConnUserNew(t) ==
    /\ threads[t].pc = "c36"
    /\ user_connections' = DictSet(user_connections, threads[t].key, {})
    /\ UNCHANGED <<group_connections, connection_info>>
    /\ ThreadStep(t, [threads[t] EXCEPT !.pc = "c37"])

\* line 37: self._user_connections[user_id].add(websocket)
TConnUserAdd(t) ==
    /\ threads[t].pc = "c37"
    /\ IF threads[t].key \in DOMAIN user_connections
       THEN /\ user_connections' = [user_connections EXCEPT
                                      ![threads[t].key] = @ \cup {threads[t].h}]
            /\ ThreadStep(t, [threads[t] EXCEPT !.pc = "c40"])
       ELSE /\ UNCHANGED user_connections
            /\ ThreadStep(t, Ends(threads[t], "KeyError"))
    /\ UNCHANGED <<group_connections, connection_info>>

\* lines 40-41: `for group_id in groups:` and `if group_id not in ...`; after
\* the loop, the send_json of the acknowledgement (line 48).
TConnGroupCheck(t) ==
    /\ threads[t].pc = "c40"
    /\ RegistryUnchanged
    /\ ThreadStep(t,
          IF threads[t].todo = {}
          THEN [threads[t] EXCEPT !.pc = "c48"]
          ELSE [threads[t] EXCEPT
                  !.key = NextGroup(threads[t].todo),
                  !.todo = @ \ {NextGroup(threads[t].todo)},
                  !.pc = IF NextGroup(threads[t].todo) \notin DOMAIN group_connections
                         THEN "c42" ELSE "c43"])

\* line 42: self._group_connections[group_id] = set()
TConnGroupNew(t) ==
    /\ threads[t].pc = "c42"
    /\ group_connections' = DictSet(group_connections, threads[t].key, {})
    /\ UNCHANGED <<user_connections, connection_info>>
    /\ ThreadStep(t, [threads[t] EXCEPT !.pc = "c43"])

\* line 43: self._group_connections[group_id].add(websocket)
TConnGroupAdd(t) ==
    /\ threads[t].pc = "c43"
    /\ IF threads[t].key \in DOMAIN group_connections
       THEN /\ group_connections' = [group_connections EXCEPT
                                       ![threads[t].key] = @ \cup {threads[t].h}]
            /\ ThreadStep(t, [threads[t] EXCEPT !.pc = "c40"])
       ELSE /\ UNCHANGED group_connections
            /\ ThreadStep(t, Ends(threads[t], "KeyError"))
    /\ UNCHANGED <<user_connections, connection_info>>

\* lines 48-53 and 82-88: the acknowledgement is written, or its send_json
\* raises and _send_to_websocket calls disconnect().
TConnAck(t, ok) ==
    /\ threads[t].pc = "c48"
    /\ RegistryUnchanged
    /\ ThreadStep(t, IF ok THEN Ends(threads[t], "returned")
                     ELSE [threads[t] EXCEPT !.pc = "d57"])

\* disconnect(websocket) is called.
TDisconnect(t, h) ==
    /\ threads[t].pc = "idle"
    /\ RegistryUnchanged
    /\ ThreadStep(t, [IdleThread EXCEPT !.op = "disconnect", !.pc = "d57", !.h = h])

\* lines 57-62: info = self._connection_info.get(websocket); `if not info: return`
TDiscInfo(t) ==
    /\ threads[t].pc = "d57"
    /\ RegistryUnchanged
    /\ ThreadStep(t,
          IF threads[t].h \notin DOMAIN connection_info
             \/ Falsy(connection_info[threads[t].h])
          THEN Returns(threads[t])
          ELSE [threads[t] EXCEPT
                  !.pc = "d65",
                  !.info = connection_info[threads[t].h],
                  !.key = GetUserId(connection_info[threads[t].h]),
                  !.todo = GetGroups(connection_info[threads[t].h])])

\* line 65: `if user_id and user_id in self._user_connections:`
TDiscUserCheck(t) ==
    /\ threads[t].pc = "d65"
    /\ RegistryUnchanged
    /\ ThreadStep(t, [threads[t] EXCEPT
          !.pc = IF threads[t].key # None /\ threads[t].key \in DOMAIN user_connections
                 THEN "d66" ELSE "d71"])

\* line 66: self._user_connections[user_id].discard(websocket)
TDiscUserDiscard(t) ==
    /\ threads[t].pc = "d66"
    /\ IF threads[t].key \in DOMAIN user_connections
       THEN /\ user_connections' = [user_connections EXCEPT
                                      ![threads[t].key] = @ \ {threads[t].h}]
            /\ ThreadStep(t, [threads[t] EXCEPT !.pc = "d67"])
       ELSE /\ UNCHANGED user_connections
            /\ ThreadStep(t, Ends(threads[t], "KeyError"))
    /\ UNCHANGED <<group_connections, connection_info>>

\* line 67: `if not self._user_connections[user_id]:`
TDiscUserEmpty(t) ==
    /\ threads[t].pc = "d67"
    /\ RegistryUnchanged
    /\ ThreadStep(t,
          IF threads[t].key \notin DOMAIN user_connections
          THEN Ends(threads[t], "KeyError")
          ELSE [threads[t] EXCEPT
                  !.pc = IF user_connections[threads[t].key] = {} THEN "d68" ELSE "d71"])

\* line 68: del self._user_connections[user_id]
TDiscUserDel(t) ==
    /\ threads[t].pc = "d68"
    /\ IF threads[t].key \in DOMAIN user_connections
       THEN /\ user_connections' = DictDel(user_connections, threads[t].key)
            /\ ThreadStep(t, [threads[t] EXCEPT !.pc = "d71"])
       ELSE /\ UNCHANGED user_connections
            /\ ThreadStep(t, Ends(threads[t], "KeyError"))
    /\ UNCHANGED <<group_connections, connection_info>>

\* lines 71-72: `for group_id in groups:` and `if group_id in ...`
TDiscGroupCheck(t) ==
    /\ threads[t].pc = "d71"
    /\ RegistryUnchanged
    /\ ThreadStep(t,
          IF threads[t].todo = {}
          THEN [threads[t] EXCEPT !.pc = "d78"]
          ELSE [threads[t] EXCEPT
                  !.key = NextGroup(threads[t].todo),
                  !.todo = @ \ {NextGroup(threads[t].todo)},
                  !.pc = IF NextGroup(threads[t].todo) \in DOMAIN group_connections
                         THEN "d73" ELSE "d71"])

\* line 73: self._group_connections[group_id].discard(websocket)
TDiscGroupDiscard(t) ==
    /\ threads[t].pc = "d73"
    /\ IF threads[t].key \in DOMAIN group_connections
       THEN /\ group_connections' = [group_connections EXCEPT
                                       ![threads[t].key] = @ \ {threads[t].h}]
            /\ ThreadStep(t, [threads[t] EXCEPT !.pc = "d74"])
       ELSE /\ UNCHANGED group_connections
            /\ ThreadStep(t, Ends(threads[t], "KeyError"))
    /\ UNCHANGED <<user_connections, connection_info>>

\* lines 74-75: `if not self._group_connections[group_id]:` and the del
TDiscGroupEmpty(t) ==
    /\ threads[t].pc = "d74"
    /\ RegistryUnchanged
    /\ ThreadStep(t,
          IF threads[t].key \notin DOMAIN group_connections
          THEN Ends(threads[t], "KeyError")
          ELSE [threads[t] EXCEPT
                  !.pc = IF group_connections[threads[t].key] = {} THEN "d75" ELSE "d71"])

TDiscGroupDel(t) ==
    /\ threads[t].pc = "d75"
    /\ IF threads[t].key \in DOMAIN group_connections
       THEN /\ group_connections' = DictDel(group_connections, threads[t].key)
            /\ ThreadStep(t, [threads[t] EXCEPT !.pc = "d71"])
       ELSE /\ UNCHANGED group_connections
            /\ ThreadStep(t, Ends(threads[t], "KeyError"))
    /\ UNCHANGED <<user_connections, connection_info>>

\* line 78: del self._connection_info[websocket]
TDiscInfoDel(t) ==
    /\ threads[t].pc = "d78"
    /\ IF threads[t].h \in DOMAIN connection_info
       THEN /\ connection_info' = DictDel(connection_info, threads[t].h)
            /\ ThreadStep(t, Returns(threads[t]))
       ELSE /\ UNCHANGED connection_info
            /\ ThreadStep(t, Ends(threads[t], "KeyError"))
    /\ UNCHANGED <<user_connections, group_connections>>

\* send_to_user_sync(user_id, message): send_to_user, lines 94-96.
TSend(t, u) ==
    /\ threads[t].pc = "idle"
    /\ RegistryUnchanged
    /\ ThreadStep(t,
          IF u \notin DOMAIN user_connections
          THEN Ends([IdleThread EXCEPT !.op = "send", !.key = u], "returned")
          ELSE [IdleThread EXCEPT !.op = "send", !.key = u, !.pc = "s112"])

\* lines 112-122: the delivery loop, here run from its first to its last turn
\* with no other thread scheduled in between; the writes to `failing` raise.
\* Then the cleanup, one disconnect() after the other.  A KeyError is not the
\* RuntimeError that send_to_user_sync catches (line 181): it reaches the caller.
TSendLoop(t, failing) ==
    /\ threads[t].pc = "s112"
    /\ RegistryUnchanged
    /\ IF threads[t].key \notin DOMAIN user_connections
       THEN /\ failing = {}
            /\ ThreadStep(t, Ends(threads[t], "KeyError"))
       ELSE /\ failing \subseteq user_connections[threads[t].key]
            /\ ThreadStep(t, Returns([threads[t] EXCEPT !.dead = failing]))

NextThreads ==
    \/ \E t \in Threads, h \in Handles, info \in Identities : TConnect(t, h, info)
    \/ \E t \in Threads : TConnUserCheck(t)
    \/ \E t \in Threads : TConnUserNew(t)
    \/ \E t \in Threads : TConnUserAdd(t)
    \/ \E t \in Threads : TConnGroupCheck(t)
    \/ \E t \in Threads : TConnGroupNew(t)
    \/ \E t \in Threads : TConnGroupAdd(t)
    \/ \E t \in Threads, ok \in BOOLEAN : TConnAck(t, ok)
    \/ \E t \in Threads, h \in Handles : TDisconnect(t, h)
    \/ \E t \in Threads : TDiscInfo(t)
    \/ \E t \in Threads : TDiscUserCheck(t)
    \/ \E t \in Threads : TDiscUserDiscard(t)
    \/ \E t \in Threads : TDiscUserEmpty(t)
    \/ \E t \in Threads : TDiscUserDel(t)
    \/ \E t \in Threads : TDiscGroupCheck(t)
    \/ \E t \in Threads : TDiscGroupDiscard(t)
    \/ \E t \in Threads : TDiscGroupEmpty(t)
    \/ \E t \in Threads : TDiscGroupDel(t)
    \/ \E t \in Threads : TDiscInfoDel(t)
    \/ \E t \in Threads, u \in Users : TSend(t, u)
    \/ \E t \in Threads, failing \in SUBSET Handles : TSendLoop(t, failing)

\* Each thread makes one call on the manager.
SpecThreads == InitThreads /\ [][NextThreads]_vars

\* ------------------------------------------------------- blocking callers
\* send_to_user_sync, send_to_users_sync, send_to_group_sync and broadcast_sync
\* (manager.py 177-224) on one thread.  sched is the thread's asyncio state:
\* current, the loop that set_event_loop() installed for the thread; running,
\* the loop that runs in the thread; closed, the closed loops; made, how many
\* loops were created (a loop is its number).  Of the call: pc, the line it is
\* at; was, the loop that asyncio.get_event_loop() gave before the call; inLoop,
\* the caller was inside a running loop; loop, the local of the except clause;
\* wrote, how often the call's coroutines called send_json on each handle;
\* exc, the exception in flight; runs, how often the delivery coroutine ran to
\* its end; res, how the call ended; done, the calls that have ended.
MaxSyncCalls == 2
SyncKinds == {"user", "users", "group", "broadcast"}
\* What the delivery coroutine does when a loop runs it: it returns, or the
\* iteration of a set that another thread changed raises RuntimeError, or a
\* deleted key raises KeyError.
Deliveries == {"returned", "RuntimeError", "KeyError"}

\* asyncio.get_event_loop(): the running loop, else the thread's current loop.
CurrentLoop(s) == IF s.running # NoEventLoop THEN s.running ELSE s.current

\* The caller makes a loop of its own and installs it:
\* asyncio.new_event_loop(), asyncio.set_event_loop(loop).
CallerSetsLoop ==
    /\ sched.pc = "idle" /\ sched.running = NoEventLoop /\ sched.done = 0 /\ sched.current = NoEventLoop
    /\ sched' = [sched EXCEPT !.made = @ + 1, !.current = sched.made + 1]
    /\ UNCHANGED <<user_connections, group_connections, connection_info, conn, calls,
                   failedH, last, ops, threads, limiterVars, appVars>>

\* The caller runs its loop (loop.run_until_complete(main())); what follows is
\* called from a coroutine of main().
CallerRunsLoop ==
    /\ sched.pc = "idle" /\ sched.running = NoEventLoop /\ sched.current # NoEventLoop
    /\ sched.current \notin sched.closed
    /\ sched' = [sched EXCEPT !.running = sched.current]
    /\ UNCHANGED <<user_connections, group_connections, connection_info, conn, calls,
                   failedH, last, ops, threads, limiterVars, appVars>>

\* main() returns and the caller's loop stops.
CallerLoopEnds ==
    /\ sched.pc = "idle" /\ sched.running # NoEventLoop
    /\ sched' = [sched EXCEPT !.running = NoEventLoop]
    /\ UNCHANGED <<user_connections, group_connections, connection_info, conn, calls,
                   failedH, last, ops, threads, limiterVars, appVars>>

SyncStep(s) ==
    /\ sched' = s
    /\ UNCHANGED <<user_connections, group_connections, connection_info, conn, calls,
                   failedH, last, ops, threads, limiterVars, appVars>>

\* Line 180 (193, 204, 217): asyncio.run(coro).  Inside a running loop it
\* raises RuntimeError at once; else it makes a loop, installs it as the
\* thread's current loop and runs the coroutine in it.
SyncCall(kind) ==
    /\ sched.pc = "idle"
    /\ sched.done < MaxSyncCalls
    /\ LET s == [sched EXCEPT !.kind = kind, !.was = CurrentLoop(sched),
                               !.inLoop = sched.running # NoEventLoop, !.loop = NoEventLoop,
                               !.exc = "none", !.res = "none", !.runs = 0,
                               !.wrote = [h \in Handles |-> 0]]
       IN SyncStep(IF sched.running # NoEventLoop
                   THEN [s EXCEPT !.pc = "except", !.exc = "RuntimeError"]
                   ELSE [s EXCEPT !.pc = "run", !.made = @ + 1,
                                  !.current = sched.made + 1,
                                  !.running = sched.made + 1])

\* asyncio.run ends: the coroutine is finished, the loop is closed and the
\* thread's current loop is set to NoEventLoop.  A RuntimeError of the coroutine is
\* caught by line 181; another exception leaves the method.  W: the handles
\* whose send_json the coroutine had called before it returned or raised.
SyncRunEnds(d, W) ==
    /\ sched.pc = "run"
    /\ LET s == [sched EXCEPT !.closed = @ \cup {sched.running}, !.current = NoEventLoop,
                               !.running = NoEventLoop,
                               !.wrote = [h \in Handles |-> IF h \in W THEN @[h] + 1 ELSE @[h]]]
       IN SyncStep(CASE d = "returned" ->
                          [s EXCEPT !.pc = "done", !.res = "returned", !.runs = @ + 1,
                                    !.done = @ + 1]
                     [] d = "RuntimeError" -> [s EXCEPT !.pc = "except", !.exc = d]
                     [] OTHER -> [s EXCEPT !.pc = "done", !.res = d, !.done = @ + 1])

\* Lines 183-184: loop = asyncio.new_event_loop(); asyncio.set_event_loop(loop)
SyncNewLoop ==
    /\ sched.pc = "except"
    /\ SyncStep([sched EXCEPT !.pc = "rerun", !.exc = "none", !.made = @ + 1,
                              !.loop = sched.made + 1, !.current = sched.made + 1])

\* Line 186: loop.run_until_complete(coro).  It raises RuntimeError when
\* another loop is running in the thread; else the coroutine, a new one of
\* the same delivery method, runs in `loop` and calls send_json on W.
SyncRerun(d, W) ==
    /\ sched.pc = "rerun"
    /\ SyncStep(IF sched.running # NoEventLoop
                THEN [sched EXCEPT !.pc = "close", !.exc = "RuntimeError"]
                ELSE [sched EXCEPT !.pc = "close",
                                   !.exc = IF d = "returned" THEN "none" ELSE d,
                                   !.runs = IF d = "returned" THEN @ + 1 ELSE @,
                                   !.wrote = [h \in Handles |->
                                                 IF h \in W THEN @[h] + 1 ELSE @[h]]])

\* Line 188: finally loop.close(); the method returns or the exception leaves it.
SyncClose ==
    /\ sched.pc = "close"
    /\ SyncStep([sched EXCEPT !.pc = "done", !.closed = @ \cup {sched.loop},
                              !.res = IF sched.exc = "none" THEN "returned" ELSE sched.exc,
                              !.exc = "none", !.done = @ + 1])

\* The caller goes on after the call.
SyncReturns ==
    /\ sched.pc = "done"
    /\ SyncStep([sched EXCEPT !.pc = "idle"])

NextSync ==
    \/ CallerSetsLoop
    \/ CallerRunsLoop
    \/ CallerLoopEnds
    \/ \E kind \in SyncKinds : SyncCall(kind)
    \/ \E d \in Deliveries, W \in SUBSET Handles : SyncRunEnds(d, W)
    \/ SyncNewLoop
    \/ \E d \in Deliveries, W \in SUBSET Handles : SyncRerun(d, W)
    \/ SyncClose
    \/ SyncReturns

SpecSync == Init /\ [][NextSync]_vars

\* ------------------------------------------------------------ token bucket
\* InMemoryRateLimiter (rate_limit.py 24-65) on one key.  The clock is read in
\* whole seconds.  bucket['tokens'] is a Python float: a binary64 value, held
\* here as a whole number of 2^-58 in three limbs of 21 bits, and every
\* operation on it rounds to 53 significant bits, ties to even.
MaxCalls == 3
MaxPeriod == 4
MaxTime == 5
MaxChecks == 5

Limb == 2^21
One == 2^16

FInt(k) == [h |-> k * One, m |-> 0, l |-> 0]

Carry(h, m, l) ==
    LET m2 == m + (l \div Limb)
    IN [h |-> h + (m2 \div Limb), m |-> m2 % Limb, l |-> l % Limb]

Log2(h) == CHOOSE k \in 0..30 : 2^k <= h /\ h < 2^(k + 1)

\* Rounding of an exact result to 53 significant bits; `sticky` says that the
\* exact result has bits below the last limb.
Round53(x, sticky) ==
    IF x.h < 2^11
    THEN x
    ELSE LET s == Log2(x.h) - 10
             low == x.l % (2^s)
             half == 2^(s - 1)
             odd == (x.l \div (2^s)) % 2 = 1
             up == low > half \/ (low = half /\ (sticky \/ odd))
         IN Carry(x.h, x.m, (x.l - low) + (IF up THEN 2^s ELSE 0))

\* c / p of two ints, p # 0.
FDiv(c, p) ==
    LET h0 == c * One
        r1 == h0 % p
        r2 == (r1 * Limb) % p
        r3 == (r2 * Limb) % p
    IN Round53([h |-> h0 \div p, m |-> (r1 * Limb) \div p, l |-> (r2 * Limb) \div p],
               r3 # 0)

\* e * x, e an int that is exact as a float.
FMul(e, x) == Round53(Carry(e * x.h, e * x.m, e * x.l), FALSE)

FAdd(x, y) == Round53(Carry(x.h + y.h, x.m + y.m, x.l + y.l), FALSE)

FLess(x, y) ==
    \/ x.h < y.h
    \/ x.h = y.h /\ x.m < y.m
    \/ x.h = y.h /\ x.m = y.m /\ x.l < y.l

\* min(a, b) of Python: b only when b < a.
FMin(x, y) == IF FLess(y, x) THEN y ELSE x

\* The whole part of x.
Floor(x) == x.h \div One

\* RateLimitConfig._load_config, lines 151-157: an entry is kept when it has
\* "calls" and "period", whatever integers int() makes of them.
Configs == [calls : 0..MaxCalls, period : 0..MaxPeriod]

FirstTokensFull(c) == FInt(c.calls)

\* Lines 49-51: the first check of the key.
FirstTokens(c) == FInt(c.calls - 1)

RefillNoCarry(b, c, t) ==
    FMin(FInt(c.calls), FMul(t - b.last_refill, FDiv(c.calls, c.period)))

\* A refill of max_calls tokens for every second elapsed.
RefillPerSecond(b, c, t) ==
    FMin(FInt(c.calls), FAdd(b.tokens, FMul(t - b.last_refill, FInt(c.calls))))

\* Lines 55-57: elapsed, tokens_to_add and the refilled balance.
Refill(b, c, t) ==
    FMin(FInt(c.calls),
         FAdd(b.tokens, FMul(t - b.last_refill, FDiv(c.calls, c.period))))

\* is_allowed(key, max_calls, period) at clock reading t, lines 43-65: the
\* bucket it leaves, its result (ok) or the ZeroDivisionError of line 56
\* (raised), and the balance before its decision (had).
IsAllowed(b, c, t) ==
    IF ~b.exists
    THEN [bucket |-> [exists |-> TRUE, tokens |-> FirstTokens(c), last_refill |-> t],
          ok |-> TRUE, raised |-> FALSE, had |-> FInt(c.calls)]
    ELSE IF c.period = 0
    THEN [bucket |-> b, ok |-> FALSE, raised |-> TRUE, had |-> b.tokens]
    ELSE LET tokens == Refill(b, c, t)
         IN IF ~FLess(tokens, FInt(1))
            THEN [bucket |-> [exists |-> TRUE, tokens |-> FAdd(tokens, FInt(-1)),
                              last_refill |-> t],
                  ok |-> TRUE, raised |-> FALSE, had |-> tokens]
            ELSE [bucket |-> [exists |-> TRUE, tokens |-> tokens, last_refill |-> t],
                  ok |-> FALSE, raised |-> FALSE, had |-> tokens]

\* A check as the log keeps it: t, the clock reading; ok, raised; had, left:
\* the balance before the decision and after the check; failed: the store
\* failed (sliding window only).
Checked(t, ok, raised, had, left, failed) ==
    [t |-> t, ok |-> ok, raised |-> raised, had |-> had, left |-> left, failed |-> failed]

InitBucket ==
    /\ InitManager /\ InitSync /\ InitApp
    /\ cfg \in Configs
    /\ now = 0
    /\ log = <<>>
    /\ bucket = NoBucket
    /\ lock = None
    /\ workers = [w \in Workers |-> IdleWorker]
    /\ zset = {}
    /\ expireAt = NoExpiry

\* time.time() moves on; the store deletes a key whose time to live is over.
Tick ==
    /\ now < MaxTime
    /\ now' = now + 1
    /\ IF expireAt # NoExpiry /\ now' >= expireAt
       THEN zset' = {} /\ expireAt' = NoExpiry
       ELSE UNCHANGED <<zset, expireAt>>
    /\ UNCHANGED <<user_connections, group_connections, connection_info, conn, calls,
                   failedH, last, ops, threads, syncVars, appVars,
                   cfg, log, bucket, lock, workers>>

\* RateLimitManager.check_rate_limit (lines 204-208) calls is_allowed.
BucketCheck ==
    /\ Len(log) < MaxChecks
    /\ LET r == IsAllowed(bucket, cfg, now)
       IN /\ bucket' = r.bucket
          /\ log' = Append(log, Checked(now, r.ok, r.raised, r.had, r.bucket.tokens, FALSE))
    /\ UNCHANGED <<user_connections, group_connections, connection_info, conn, calls,
                   failedH, last, ops, threads, syncVars, appVars,
                   cfg, now, lock, workers, zset, expireAt>>

NextBucket == Tick \/ BucketCheck
SpecBucket == InitBucket /\ [][NextBucket]_vars

\* ------------------------------------------------- threads on one bucket
\* Threads calling InMemoryRateLimiter.is_allowed on one key while the clock
\* stands still, one statement of lines 43-65 at a time.
LockIgnored(w) == TRUE

\* Line 43, `with self._lock:`: a thread enters when no thread holds the lock.
LockFree(w) == lock = None

InFlight == {w \in Workers : workers[w].pc # "idle"}

InitWorkers ==
    /\ InitManager /\ InitSync /\ InitApp
    /\ cfg \in {c \in Configs : c.calls >= 1 /\ c.period >= 1}
    /\ now = 0
    /\ log = <<>>
    /\ bucket = NoBucket
    /\ lock = None
    /\ workers = [w \in Workers |-> IdleWorker]
    /\ zset = {}
    /\ expireAt = NoExpiry

WorkerStep ==
    UNCHANGED <<user_connections, group_connections, connection_info, conn, calls,
                failedH, last, ops, threads, syncVars, appVars,
                cfg, now, zset, expireAt>>

\* A thread calls is_allowed.
WCall(w) ==
    /\ workers[w].pc = "idle"
    /\ Len(log) + Cardinality(InFlight) < MaxChecks
    /\ workers' = [workers EXCEPT ![w].pc = "lock"]
    /\ UNCHANGED <<bucket, lock, log>>
    /\ WorkerStep

\* Line 43.
WAcquire(w) ==
    /\ workers[w].pc = "lock"
    /\ LockFree(w)
    /\ lock' = w
    /\ workers' = [workers EXCEPT ![w].pc = "refill"]
    /\ UNCHANGED <<bucket, log>>
    /\ WorkerStep

\* Lines 44-50 on the first check of the key, lines 44-58 on a later one.
WRefill(w) ==
    /\ workers[w].pc = "refill"
    /\ IF ~bucket.exists
       THEN /\ bucket' = [exists |-> TRUE, tokens |-> FInt(cfg.calls), last_refill |-> now]
            /\ workers' = [workers EXCEPT ![w].pc = "take", ![w].had = FInt(cfg.calls)]
       ELSE /\ bucket' = [bucket EXCEPT !.tokens = Refill(bucket, cfg, now),
                                        !.last_refill = now]
            /\ workers' = [workers EXCEPT ![w].pc = "decide"]
    /\ UNCHANGED <<lock, log>>
    /\ WorkerStep

\* Line 61.
WDecide(w) ==
    /\ workers[w].pc = "decide"
    /\ workers' = [workers EXCEPT
                       ![w].pc = IF FLess(bucket.tokens, FInt(1)) THEN "denied" ELSE "take",
                       ![w].had = bucket.tokens]
    /\ UNCHANGED <<bucket, lock, log>>
    /\ WorkerStep

\* Line 62 (line 51 on the first check).
WTake(w) ==
    /\ workers[w].pc = "take"
    /\ bucket' = [bucket EXCEPT !.tokens = FAdd(bucket.tokens, FInt(-1))]
    /\ workers' = [workers EXCEPT ![w].pc = "allowed"]
    /\ UNCHANGED <<lock, log>>
    /\ WorkerStep

\* Lines 52, 63 and 65: the lock is released and the result returned.
WReturn(w) ==
    /\ workers[w].pc \in {"allowed", "denied"}
    /\ lock' = None
    /\ log' = Append(log, Checked(now, workers[w].pc = "allowed", FALSE,
                                  workers[w].had, bucket.tokens, FALSE))
    /\ workers' = [workers EXCEPT ![w] = IdleWorker]
    /\ UNCHANGED bucket
    /\ WorkerStep

NextWorkers ==
    \E w \in Workers :
        \/ WCall(w)
        \/ WAcquire(w)
        \/ WRefill(w)
        \/ WDecide(w)
        \/ WTake(w)
        \/ WReturn(w)
SpecWorkers == InitWorkers /\ [][NextWorkers]_vars


\* ---------------------------------------------------------- sliding window
\* RedisRateLimiter (rate_limit.py 68-128) on one key: zset holds the scores
\* of the sorted set (its members are str(score), one per clock reading) and
\* expireAt the time at which the store deletes the key.
MaxWindowChecks == 4

KeptAll(z, c, t) == z

\* Line 110, zremrangebyscore(key, 0, window_start): what it leaves.
Kept(z, c, t) == {s \in z : ~(0 <= s /\ s <= t - c.period)}

\* Lines 105-121, the pipeline as the store executes it: the set and time to
\* live it leaves and the reply of zcard.
Execute(z, c, t) ==
    [zset |-> Kept(z, c, t) \cup {t},
     count |-> Cardinality(Kept(z, c, t)),
     expireAt |-> t + c.period]

FailClosed == FALSE

\* Lines 126-128: what is_allowed returns when the store raised.
OnStoreFailure == TRUE

InitWindow ==
    /\ InitManager /\ InitSync /\ InitApp
    /\ cfg \in {c \in Configs : c.period >= 1}
    /\ now = 0
    /\ log = <<>>
    /\ bucket = NoBucket
    /\ lock = None
    /\ workers = [w \in Workers |-> IdleWorker]
    /\ zset = {}
    /\ expireAt = NoExpiry

\* RedisRateLimiter.is_allowed, lines 104-128.  failed: a store operation
\* raised; applied: the store executed the pipeline (it may have done so
\* although the reply was lost).
WindowCheck ==
    /\ Len(log) < MaxWindowChecks
    /\ \E failed \in BOOLEAN, applied \in BOOLEAN :
           /\ ~failed => applied
           /\ LET r == Execute(zset, cfg, now)
                  ok == IF failed THEN OnStoreFailure ELSE r.count < cfg.calls
              IN /\ zset' = IF applied THEN r.zset ELSE zset
                 /\ expireAt' = IF applied THEN r.expireAt ELSE expireAt
                 /\ log' = Append(log, Checked(now, ok, FALSE, r.count,
                                               Cardinality(IF applied THEN r.zset ELSE zset),
                                               failed))
    /\ UNCHANGED <<user_connections, group_connections, connection_info, conn, calls,
                   failedH, last, ops, threads, syncVars, appVars,
                   cfg, now, bucket, lock, workers>>

NextWindow == Tick \/ WindowCheck
SpecWindow == InitWindow /\ [][NextWindow]_vars

\* RateLimitManager (lines 168-208) with either strategy as its limiter.
InitEither ==
    /\ InitManager /\ InitSync /\ InitApp
    /\ cfg \in [calls : 1..MaxCalls, period : 1..MaxPeriod, strategy : {"bucket", "window"}]
    /\ now = 0
    /\ log = <<>>
    /\ bucket = NoBucket
    /\ lock = None
    /\ workers = [w \in Workers |-> IdleWorker]
    /\ zset = {}
    /\ expireAt = NoExpiry

NextEither ==
    \/ Tick
    \/ cfg.strategy = "bucket" /\ BucketCheck
    \/ cfg.strategy = "window" /\ WindowCheck
SpecEither == InitEither /\ [][NextEither]_vars

\* ------------------------------------------------------------------ notify
\* notify() (notify.py 41-113) with the global RateLimitManager it creates on
\* first use (28-38) from the configuration load_config() returns, the limiter
\* being the InMemoryRateLimiter.
MaxNotify == 3

\* A value of a raw entry: an int v, the float v + 0.5, or a string that is
\* no number.
RawValues ==
    {[t |-> "int", v |-> n] : n \in 0..2} \cup {[t |-> "float", v |-> 2], [t |-> "str", v |-> 0]}

\* An entry of rate_limits: absent, something that is no dict, a dict without
\* "period", or a dict with "calls" and "period".
RawEntries ==
    {Absent, [Absent EXCEPT !.kind = "not_dict"], [Absent EXCEPT !.kind = "no_period"]}
    \cup {[kind |-> "dict", calls |-> c, period |-> q] :
             c \in RawValues, q \in {x \in RawValues : x.t # "float" /\ x.v # 1}}

\* Line 152: the entries _load_config converts.
Converted(raw) == {ch \in DOMAIN raw : raw[ch].kind = "dict"}

\* int(x), lines 154-155: an int as it is, a float truncated, ValueError for
\* the string.
IntRaises(x) == x.t = "str"

\* RateLimitConfig(config_data), lines 141-157: ValueError leaves no object.
LoadConfig(raw) ==
    IF \E ch \in Converted(raw) : IntRaises(raw[ch].calls) \/ IntRaises(raw[ch].period)
    THEN [raised |-> TRUE, enabled |-> FALSE, limits |-> [ch \in {} |-> NoLimit]]
    ELSE [raised |-> FALSE,
          enabled |-> Converted(raw) # {},
          limits |-> [ch \in Converted(raw) |->
                         [calls |-> raw[ch].calls.v, period |-> raw[ch].period.v]]]

KeyShared(ch) == <<"pgdn_ws_", "">>

\* Line 205: key = f"pgdn_ws_{notification_type}".
Key(ch) == <<"pgdn_ws_", ch>>

LimitedAlways(m, ch) == TRUE

\* Lines 197-202: the channel is gated by the limiter.
Limited(m, ch) == m.enabled /\ ch \in DOMAIN m.limits

\* RateLimitManager.check_rate_limit at clock reading t, lines 197-208:
\* get_limit() gives None (NoLimit) for a channel without entry, and
\* self._buckets is a defaultdict.
CheckRateLimit(m, ch, t) ==
    IF ~Limited(m, ch)
    THEN [ok |-> TRUE, raised |-> FALSE, consulted |-> FALSE, buckets |-> m.buckets]
    ELSE LET k == Key(ch)
             r == IsAllowed(IF k \in DOMAIN m.buckets THEN m.buckets[k] ELSE NoBucket,
                            IF ch \in DOMAIN m.limits THEN m.limits[ch] ELSE NoLimit, t)
         IN [ok |-> r.ok, raised |-> r.raised, consulted |-> TRUE,
             buckets |-> [x \in DOMAIN m.buckets \cup {k} |->
                             IF x = k THEN r.bucket ELSE m.buckets[x]]]

\* The argument of notify(): something that is no dict, or a dict whose "type"
\* is missing, a list, a name NOTIFIERS does not hold, or a channel, with or
\* without "body".
NotifyData ==
    {[dict |-> FALSE, type |-> "missing", body |-> FALSE]}
    \cup [dict : {TRUE}, type : {"missing", "list", "unsupported"} \cup Channels, body : BOOLEAN]

\* What the notifier called at line 91 does: it returns a dict with
\* "success" (true, or false with an "error"), raises, returns something
\* that is no dict, or returns a dict without "success".
NotifierOutcomes == {"success", "failure", "raises", "not_dict", "no_success"}

GateOpen(allowed) == TRUE

\* Line 86: the notifier is reached when the check allows.
Gate(allowed) == allowed

Failure(type, error) ==
    [NoResult EXCEPT !.success = "false", !.type = type, !.error = error]

\* get_rate_limit_manager(), lines 32-38.
GetRateLimitManager(m, raw) ==
    IF m.made \/ LoadConfig(raw).raised
    THEN m
    ELSE [made |-> TRUE, enabled |-> LoadConfig(raw).enabled,
          limits |-> LoadConfig(raw).limits, buckets |-> m.buckets]

\* notify(data), lines 51-113, the notifier doing `outcome`: the result (or
\* the exception that leaves notify: fault) and the manager it leaves.
NotifyCall(data, outcome, m0, raw, t) ==
    LET m == GetRateLimitManager(m0, raw)
        c == CheckRateLimit(m, data.type, t)
        seen == [NoResult EXCEPT !.channel = data.type, !.type = data.type]
    IN IF ~data.dict THEN [m |-> m0, result |-> Failure("unknown", "Invalid input")]
       ELSE IF data.type = "missing"
       THEN [m |-> m0, result |-> Failure("unknown", "Missing required field: type")]
       ELSE IF data.type = "list"
       THEN [m |-> m0, result |-> [NoResult EXCEPT !.fault = "TypeError"]]
       ELSE IF data.type \notin Channels
       THEN [m |-> m0, result |-> Failure(data.type, "Unsupported notification type")]
       ELSE IF ~data.body
       THEN [m |-> m0, result |-> Failure(data.type, "Missing required field: body")]
       ELSE IF ~m.made
       THEN [m |-> m, result |-> [seen EXCEPT !.fault = "ValueError"]]
       ELSE IF c.raised
       THEN [m |-> [m EXCEPT !.buckets = c.buckets],
             result |-> [seen EXCEPT !.fault = "ZeroDivisionError", !.checked = TRUE,
                                     !.consulted = c.consulted]]
       ELSE LET checked == [seen EXCEPT !.checked = TRUE, !.consulted = c.consulted,
                                        !.allowed = c.ok]
            IN [m |-> [m EXCEPT !.buckets = c.buckets],
                result |->
                    IF ~Gate(c.ok)
                    THEN [checked EXCEPT !.success = "false", !.error = "Rate limit exceeded"]
                    ELSE CASE outcome = "success" ->
                                  [checked EXCEPT !.invoked = TRUE, !.success = "true"]
                           [] outcome = "failure" ->
                                  [checked EXCEPT !.invoked = TRUE, !.success = "false",
                                                  !.error = "the notifier's"]
                           [] outcome = "no_success" ->
                                  [checked EXCEPT !.invoked = TRUE]
                           [] OTHER ->
                                  [checked EXCEPT !.invoked = TRUE, !.success = "false",
                                                  !.error = "Notification failed"]]

\* A limit as load_config() gives it when it was written as two ints.
Entry(c, q) == [kind |-> "dict", calls |-> [t |-> "int", v |-> c], period |-> [t |-> "int", v |-> q]]

\* Configurations whose entries are absent or hold two positive ints.
InitNotify ==
    /\ InitManager /\ InitSync /\ InitLimiter
    /\ config_data \in [Channels -> {Absent, Entry(1, 2), Entry(2, 1)}]
    /\ rate_limit_manager = NoRateLimitManager
    /\ notified = [n |-> 0, result |-> NoResult,
                   allowed |-> [ch \in Channels |-> 0], invoked |-> [ch \in Channels |-> 0]]
    /\ ep = IdleEndpoint
    /\ ack = [h \in Handles |-> "none"]

Notify ==
    /\ notified.n < MaxNotify
    /\ \E data \in NotifyData :
       \E outcome \in IF data.dict /\ data.body /\ data.type \in Channels
                       THEN NotifierOutcomes ELSE {"success"} :
       \E r \in {NotifyCall(data, outcome, rate_limit_manager, config_data, now)} :
           LET ch == data.type
           IN /\ rate_limit_manager' = r.m
              /\ notified' =
                     [n |-> notified.n + 1,
                      result |-> r.result,
                      allowed |-> IF r.result.allowed
                                  THEN [notified.allowed EXCEPT ![ch] = @ + 1]
                                  ELSE notified.allowed,
                      invoked |-> IF r.result.invoked
                                  THEN [notified.invoked EXCEPT ![ch] = @ + 1]
                                  ELSE notified.invoked]
    /\ UNCHANGED <<user_connections, group_connections, connection_info, conn, calls,
                   failedH, last, ops, threads, syncVars, limiterVars, config_data, ep,
                   ack>>

NextNotify == Tick \/ Notify
SpecNotify == InitNotify /\ [][NextNotify]_vars

\* Configurations with any entry for "slack".
InitConfig ==
    /\ InitManager /\ InitSync /\ InitLimiter
    /\ config_data \in [Channels -> RawEntries]
    /\ config_data["email"] \in {Absent, Entry(1, 2)}
    /\ rate_limit_manager = NoRateLimitManager
    /\ notified = [n |-> 0, result |-> NoResult,
                   allowed |-> [ch \in Channels |-> 0], invoked |-> [ch \in Channels |-> 0]]
    /\ ep = IdleEndpoint
    /\ ack = [h \in Handles |-> "none"]
SpecConfig == InitConfig /\ [][NextNotify]_vars

\* ---------------------------------------------------------------- endpoint
\* websocket_endpoint (router.py 23-75) on one websocket, and
\* NotificationManager.handle_message (manager.py 230-246).  accept() and
\* close() succeed; send_json() succeeds or raises.
MaxFrames == 3
Socket == "h1"
Timestamps == 1..2
MessageTypes == {"ping", "chat"}

\* A dict given to send_json.
Msg(type, timestamp, text) == [type |-> type, timestamp |-> timestamp, message |-> text]

\* What receive_text() gives: WebSocketDisconnect, text that is no JSON, JSON
\* that is no object (a list, a number, a string, null), or an object with or
\* without "type" and "timestamp".
RawFrames ==
    {[NoFrame EXCEPT !.kind = k] : k \in {"disconnect", "text", "json"}}
    \cup {[NoFrame EXCEPT !.kind = "object"]}
    \cup {[kind |-> "object", keys |-> {"type"}, type |-> ty, timestamp |-> NoTimestamp] :
             ty \in MessageTypes}
    \cup {[kind |-> "object", keys |-> {"type", "timestamp"}, type |-> ty, timestamp |-> ts] :
             ty \in MessageTypes, ts \in Timestamps}

\* message.get("type"), message.get("timestamp").
GetType(message) == IF "type" \in message.keys THEN message.type ELSE None
GetTimestamp(message) == IF "timestamp" \in message.keys THEN message.timestamp ELSE NoTimestamp

PongUnstamped(message) == Msg("pong", NoTimestamp, "none")

\* manager.py 237-240.
Pong(message) == Msg("pong", GetTimestamp(message), "none")

\* What the auth function may do: raise, return None, or return an identity.
AuthResults == {"raises", "None", "dict"}

\* _send_to_websocket, manager.py 82-88: the registry and the messages
\* written once it has returned.
SendToWebsocket(r, h, sent, data, ok) ==
    IF ok THEN [r |-> r, sent |-> Append(sent, data)]
    ELSE [r |-> Unregister(r, h), sent |-> sent]

\* handle_message(websocket, message), manager.py 230-246, with the handlers
\* registered in `handlers`; `raises`: the handler called raises.
HandleMessage(r, h, message, handlers, sent, handled, ok, raises) ==
    IF message.kind # "object"
    THEN [fault |-> "AttributeError", r |-> r, sent |-> sent, handled |-> handled]
    ELSE IF GetType(message) = "ping"
    THEN LET w == SendToWebsocket(r, h, sent, Pong(message), ok)
         IN [fault |-> "none", r |-> w.r, sent |-> w.sent, handled |-> handled]
    ELSE IF GetType(message) \in handlers
    THEN [fault |-> IF raises THEN "handler" ELSE "none", r |-> r, sent |-> sent,
          handled |-> Append(handled,
                             [type |-> GetType(message),
                              user_id |-> IF h \in DOMAIN r.ci
                                          THEN GetUserId(r.ci[h]) ELSE None])]
    ELSE [fault |-> "none", r |-> r, sent |-> sent, handled |-> handled]

\* register_handler(message_type, handler), manager.py 226-228.
RegisterHandler ==
    /\ \E ty \in MessageTypes :
           /\ ty \notin ep.handlers
           /\ ep' = [ep EXCEPT !.handlers = @ \cup {ty}]
    /\ UNCHANGED <<user_connections, group_connections, connection_info, conn, calls,
                   failedH, last, ops, threads, syncVars, limiterVars, config_data,
                   rate_limit_manager, notified, ack>>

\* websocket_endpoint from its call up to the first receive_text(), or up to
\* its return through `finally` (router.py 30-50, 70-75).
EndpointOpen ==
    /\ ep.pc = "idle"
    /\ \E token \in BOOLEAN, auth \in AuthResults, info \in Identities, ok \in BOOLEAN :
       LET closed == [ep EXCEPT !.pc = "done", !.token = token, !.closes = @ + 1]
           faulted == [ep EXCEPT !.pc = "done", !.token = token, !.authed = auth]
           w == SendToWebsocket(Register(Registry, Socket, info), Socket, ep.sent,
                                Msg("connection", NoTimestamp, "connected"), ok)
       IN IF ~token
          THEN ep' = closed /\ SetRegistry(Unregister(Registry, Socket))
          ELSE IF auth # "dict"
          THEN ep' = faulted /\ SetRegistry(Unregister(Registry, Socket))
          ELSE IF Falsy(info)
          THEN /\ ep' = [closed EXCEPT !.authed = auth, !.user_info = info]
               /\ SetRegistry(Unregister(Registry, Socket))
          ELSE /\ ep' = [ep EXCEPT !.pc = "loop", !.token = token, !.authed = auth,
                                   !.user_info = info, !.accepts = @ + 1,
                                   !.sent = w.sent, !.sendok = ok]
               /\ SetRegistry(w.r)
    /\ ack' = IF ep'.accepts = ep.accepts THEN ack
               ELSE [ack EXCEPT ![Socket] = IF @ = "written" \/ ep'.sent # ep.sent
                                            THEN "written" ELSE "started"]
    /\ UNCHANGED <<conn, calls, failedH, last, ops, threads, syncVars, limiterVars,
                   config_data, rate_limit_manager, notified>>

\* One round of the `while True` loop, router.py 50-68, and the `finally`
\* of lines 72-75 when the loop is left.
EndpointReceive ==
    /\ ep.pc = "loop"
    /\ ep.frames < MaxFrames
    /\ \E message \in RawFrames, ok \in BOOLEAN, raises \in BOOLEAN :
       LET got == [ep EXCEPT !.frames = @ + 1, !.frame = message, !.sendok = ok]
           left == [got EXCEPT !.pc = "done"]
           hm == HandleMessage(Registry, Socket, message, ep.handlers, ep.sent, ep.handled,
                               ok, raises)
       IN IF message.kind = "disconnect"
          THEN ep' = left /\ SetRegistry(Unregister(Registry, Socket))
          ELSE IF message.kind = "text"
          THEN IF ok
               THEN /\ ep' = [got EXCEPT !.sent = Append(@, Msg("error", NoTimestamp,
                                                                   "Invalid JSON"))]
                    /\ SetRegistry(Registry)
               ELSE ep' = left /\ SetRegistry(Unregister(Registry, Socket))
          ELSE IF hm.fault # "none"
          THEN /\ ep' = [left EXCEPT !.sent = hm.sent, !.handled = hm.handled]
               /\ SetRegistry(Unregister(hm.r, Socket))
          ELSE /\ ep' = [got EXCEPT !.sent = hm.sent, !.handled = hm.handled]
               /\ SetRegistry(hm.r)
    /\ UNCHANGED <<conn, calls, failedH, last, ops, threads, syncVars, limiterVars,
                   config_data, rate_limit_manager, notified, ack>>

NextEndpoint == RegisterHandler \/ EndpointOpen \/ EndpointReceive
SpecEndpoint == Init /\ [][NextEndpoint]_vars

\* ------------------------------------------------------------------- claims
\* The call that `last` tells of, and the set its (first) loop iterates now.
Ended(kinds) == last.op = "dispatch" /\ last.call.kind \in kinds
StillTargeted(call) ==
    UNION {TargetsOf(Registry, call.loops[i].kind, call.loops[i].key) : i \in DOMAIN call.loops}
Written(call) == call.got \cup call.bad

\* C1: once disconnect(h) has returned, h is in no user set, in no group set
\* and has no identity entry, whatever identity h was connected with.
C1_DisconnectClearsAllIndexes ==
    [][\A h \in Handles : Disconnect(h) => ~Present(Registry', h)]_vars

\* C2: every registered handle is in the user index exactly under the user_id
\* of its identity and in exactly the group sets of its identity's groups, and
\* an unregistered handle is in no user or group set.
C2_IndexesMatchIdentity ==
    \A h \in Handles :
        IF h \in DOMAIN connection_info
        THEN /\ \A u \in Users :
                  (u \in DOMAIN user_connections /\ h \in user_connections[u])
                  <=> u = GetUserId(connection_info[h])
             /\ \A g \in Groups :
                  (g \in DOMAIN group_connections /\ h \in group_connections[g])
                  <=> g \in GetGroups(connection_info[h])
        ELSE ~InUserIndex(Registry, h) /\ ~InGroupIndex(Registry, h)

\* C3: a send_to_user in which some writes failed returns normally, has
\* delivered to every handle of the user whose write did not fail (and that is
\* still the user's), and leaves no failed handle in the registry.
C3_UserDeliveryBestEffort ==
    (Ended({"user"}) /\ last.call.bad # {}) =>
        /\ last.st = "returned"
        /\ (last.call.targets \cap StillTargeted(last.call)) \ last.call.bad
               \subseteq last.call.got
        /\ \A h \in last.call.bad : ~Present(Registry, h)

\* C4: a send_to_user or send_to_group during which another task disconnected
\* a handle of the target returns normally and has written to every other
\* handle of the target that is still registered.
C4_DisconnectCancelsOneHandleOnly ==
    (Ended({"user", "group"}) /\ last.call.closed # {}) =>
        /\ last.st = "returned"
        /\ last.call.targets \cap StillTargeted(last.call) \subseteq Written(last.call)

\* C5: a broadcast creates no write for a handle whose identity names an
\* excluded user, and when it has returned it has written to every handle of
\* every user that was connected and not excluded.
C5_BroadcastHonoursExclusion ==
    /\ (last.op = "call" /\ last.call.kind = "broadcast") =>
          \A i \in DOMAIN last.call.tasks :
              LET h == last.call.tasks[i].h
              IN ~(h \in DOMAIN connection_info
                   /\ GetUserId(connection_info[h]) \in last.call.excl)
    /\ Ended({"broadcast"}) =>
          last.st = "returned" /\ last.call.targets \subseteq Written(last.call)

\* C6: a send_to_group or broadcast in which some writes failed returns
\* normally, has delivered to every other targeted handle whose write did not
\* fail, and leaves no failed handle (not connected again since) in the
\* registry.
C6_GroupAndBroadcastBestEffort ==
    (Ended({"group", "broadcast"}) /\ last.call.bad # {}) =>
        /\ last.st = "returned"
        /\ (IF last.call.kind = "group"
            THEN last.call.targets \cap StillTargeted(last.call)
            ELSE last.call.targets) \ last.call.bad \subseteq last.call.got
        /\ \A h \in last.call.bad \cap failedH : ~Present(Registry, h)

\* C7: a send_to_users that no other task disturbed returns normally and has
\* written to every handle that was and still is a handle of one of the ids,
\* whatever failed in the delivery to another id.
C7_UsersDeliveryIsolated ==
    Ended({"users"}) =>
        /\ last.st = "returned"
        /\ ~last.call.ext =>
              last.call.targets \cap StillTargeted(last.call) \subseteq Written(last.call)

\* C8: after a write to a handle has failed, no dispatch call writes to that
\* handle again (until it is connected anew).
C8_NoWriteAfterFailure == last.late = {}

\* C9: connect() does not return normally when its acknowledgement could not
\* be written.
C9_ConnectFailsOnFailedAck ==
    (last.op = "connect" /\ last.ackFailed) => last.st = "raised"

\* C10: called from several threads, no connect(), disconnect() or
\* send_to_user_sync() raises, and when the threads' calls have ended every
\* handle is indexed as its identity says: in the user and group sets of its
\* identity if it has an identity entry, in no set if it has none.
C10_ThreadsLeaveIndexesWhole ==
    /\ \A t \in Threads : threads[t].res \in {"none", "returned"}
    /\ (\A t \in Threads : threads[t].pc \in {"idle", "done"}) => C2_IndexesMatchIdentity

\* C11: a *_sync method called from inside a running event loop returns
\* without raising and has run the delivery to its end.
C11_SyncInsideRunningLoop ==
    (sched.pc = "done" /\ sched.inLoop) => (sched.res = "returned" /\ sched.runs >= 1)

\* C12: when a *_sync method has returned or raised, the event loop that was
\* the thread's current one before the call is still the current one and is
\* not closed.
C12_SyncKeepsCallersLoop ==
    (sched.pc = "done" /\ sched.was # NoEventLoop) =>
        /\ sched.current = sched.was
        /\ CurrentLoop(sched) = sched.was
        /\ sched.was \notin sched.closed


\* ------------------------------------------------- claims on the token bucket
\* The checks k..m of the log were made at one clock reading.
SameReading(k, m) == \A j \in k..m : log[j].t = log[k].t

Denied(k) == ~log[k].ok /\ ~log[k].raised

\* C13: on a fresh key with max_calls >= 1 (and a period of at least one
\* second), while no time elapses, the first max_calls checks are allowed and
\* every later one is denied; the first check leaves max_calls - 1 tokens.
C13_BurstOfMaxCalls ==
    (cfg.calls >= 1 /\ cfg.period >= 1) =>
        /\ Len(log) >= 1 => (log[1].ok /\ log[1].left = FInt(cfg.calls - 1))
        /\ \A k \in 1..Len(log) :
               SameReading(1, k) => (log[k].ok <=> k <= cfg.calls)

C13_Witness ==
    /\ cfg.calls >= 2 /\ cfg.period >= 1
    /\ Len(log) = cfg.calls + 1
    /\ SameReading(1, Len(log))
    /\ ~log[Len(log)].ok

\* Check i is the last one of a clock reading at which the bucket ran out:
\* a check was allowed at that reading and less than one token is left.
ExhaustedAt(i) ==
    /\ ~log[i].raised
    /\ FLess(log[i].left, FInt(1))
    /\ \E j \in 1..i : log[j].ok /\ SameReading(j, i)

\* C14 as stated: after the bucket is exhausted, once e seconds have elapsed,
\* exactly floor(min(max_calls, e * max_calls / period)) further checks made
\* at that reading are allowed before the next is denied, and the balance
\* never exceeds max_calls.
C14_RefillFromElapsedOnly ==
    cfg.period >= 1 =>
        \A i \in 1..Len(log) : \A k \in (i + 1)..Len(log) :
            (ExhaustedAt(i) /\ SameReading(i + 1, k)) =>
                /\ log[k].ok <=>
                       /\ (k - i) <= cfg.calls
                       /\ (k - i) * cfg.period <= (log[k].t - log[i].t) * cfg.calls
                /\ ~FLess(FInt(cfg.calls), log[k].had)

\* C14, amended: the number of further checks allowed is the whole part of
\* min(max_calls, r + e * (max_calls / period)) as the check computes it in
\* floating point, r being the fraction of a token left in the bucket when it
\* ran out.
C14_RefillCarriesFraction ==
    cfg.period >= 1 =>
        \A i \in 1..Len(log) : \A k \in (i + 1)..Len(log) :
            (ExhaustedAt(i) /\ SameReading(i + 1, k)) =>
                /\ log[k].ok <=>
                       (k - i) <= Floor(FMin(FInt(cfg.calls),
                                             FAdd(log[i].left,
                                                  FMul(log[k].t - log[i].t,
                                                       FDiv(cfg.calls, cfg.period)))))
                /\ ~FLess(FInt(cfg.calls), log[k].had)

C14_Witness ==
    /\ cfg.period >= 1 /\ cfg.calls >= 1
    /\ \E i \in 1..Len(log) : \E k \in (i + 1)..(Len(log) - 1) :
           /\ ExhaustedAt(i) /\ FLess(FInt(0), log[i].left)
           /\ SameReading(i + 1, k + 1)
           /\ log[k].t > log[i].t
           /\ log[k].ok /\ Denied(k + 1)

\* C15: for every configuration RateLimitConfig accepts, the balance of a
\* bucket stays within 0..max_calls.
C15_TokensWithinBounds ==
    bucket.exists =>
        (~FLess(bucket.tokens, FInt(0)) /\ ~FLess(FInt(cfg.calls), bucket.tokens))

\* The checks after check i, up to check j, that were allowed.
AllowedIn(i, j) == {x \in (i + 1)..j : log[x].ok}

\* C16: checks made by several threads on one key while no time elapses are
\* serialized: of n checks that find k whole tokens in the bucket (k being
\* max_calls on a fresh key), exactly min(n, k) are allowed.
C16_ConcurrentChecksSerialized ==
    \A i \in 0..Len(log) : \A j \in i..Len(log) :
        LET k == IF i = 0 THEN cfg.calls ELSE Floor(log[i].left)
            n == j - i
        IN Cardinality(AllowedIn(i, j)) = (IF n <= k THEN n ELSE k)

C16_Witness ==
    /\ Len(log) > cfg.calls
    /\ Cardinality(AllowedIn(0, Len(log))) = cfg.calls
    /\ \E w \in Workers : workers[w].pc = "lock" /\ lock \notin {None, w}

\* ----------------------------------------------- claims on the sliding window
\* The step is a check that the store answered.
Answered == Len(log') = Len(log) + 1 /\ ~log'[Len(log')].failed

\* C17 as stated: a check drops the entries older than now - period, counts
\* the rest, inserts now and refreshes the time to live in one step, and
\* returns true exactly when that count is below max_calls.
C17_DropsOlderThanWindow ==
    [][Answered =>
          LET rest == {s \in zset : ~(s < now - cfg.period)}
          IN /\ zset' = rest \cup {now}
             /\ expireAt' = now + cfg.period
             /\ log'[Len(log')].ok <=> Cardinality(rest) < cfg.calls]_vars

\* C17, amended: the entries dropped are those that are period seconds old
\* or older (score <= now - period).
C17_DropsWindowStartAndOlder ==
    [][Answered =>
          LET rest == {s \in zset : ~(s <= now - cfg.period)}
          IN /\ zset' = rest \cup {now}
             /\ expireAt' = now + cfg.period
             /\ log'[Len(log')].ok <=> Cardinality(rest) < cfg.calls]_vars

C17_Witness ==
    /\ Len(log) >= 3
    /\ ~log[Len(log)].failed /\ log[Len(log)].t = now
    /\ \E k \in 1..(Len(log) - 1) :
           /\ ~log[k].failed /\ log[k].t = now - cfg.period
           /\ log[k].t \notin zset
    /\ \E k \in 1..(Len(log) - 1) : ~log[k].failed /\ log[k].t \in zset /\ log[k].t < now
    /\ now \in zset
    /\ expireAt = now + cfg.period

\* C18: with max_calls = 2, after two calls have registered within the
\* window a third call in that window is denied, and once the oldest call
\* has left the window the next check is allowed again.
C18_AllowedAgainWhenOldestLeft ==
    cfg.calls = 2 =>
        \A i \in 1..(Len(log) - 2) :
            LET j == i + 1
                m == i + 2
                k == i + 3
            IN (/\ ~log[i].failed /\ ~log[j].failed /\ ~log[m].failed
                /\ log[i].ok /\ log[j].ok
                /\ log[i].t < log[j].t /\ log[j].t < log[m].t
                /\ log[m].t - log[i].t < cfg.period
                /\ \A x \in 1..(i - 1) : log[i].t - log[x].t > cfg.period)
               => /\ ~log[m].ok
                  /\ (/\ k <= Len(log)
                      /\ ~log[k].failed
                      /\ log[k].t - log[i].t > cfg.period) => log[k].ok

\* C19: under either strategy a check that returns false takes nothing from
\* the capacity left to later checks: the tokens of the bucket, or the
\* entries counted in the window, are what they were before its decision.
C19_DeniedCheckConsumesNothing ==
    \A k \in 1..Len(log) :
        Denied(k) =>
            IF cfg.strategy = "bucket"
            THEN log[k].left = log[k].had
            ELSE log[k].left <= log[k].had

\* C20: a check of the sliding window during which the store is unreachable
\* or a store operation fails returns true.
C20_FailsOpen ==
    \A k \in 1..Len(log) : log[k].failed => log[k].ok

C20_Witness ==
    \E k \in 1..Len(log) :
        log[k].failed /\ log[k].ok /\ log[k].had >= cfg.calls /\ cfg.calls >= 1

\* ----------------------------------------------------------- claims: notify

\* C21: a check for a channel while rate limiting is disabled, or for a
\* channel that has no limit, returns true, consults no limiter and leaves
\* every bucket as it was.
C21_UnlimitedChannelPasses ==
    [][(/\ notified'.n = notified.n + 1
        /\ notified'.result.checked
        /\ \/ ~rate_limit_manager'.enabled
           \/ notified'.result.channel \notin DOMAIN rate_limit_manager'.limits)
       => /\ notified'.result.fault = "none"
          /\ notified'.result.allowed
          /\ ~notified'.result.consulted
          /\ rate_limit_manager'.buckets = rate_limit_manager.buckets]_vars

\* A channel without limit passes while the other channel's bucket is empty.
C21_Witness ==
    /\ notified.result.checked
    /\ notified.result.allowed
    /\ rate_limit_manager.enabled
    /\ notified.result.channel \notin DOMAIN rate_limit_manager.limits
    /\ \E k \in DOMAIN rate_limit_manager.buckets :
           FLess(rate_limit_manager.buckets[k].tokens, FInt(1))

\* C22: a check on one channel changes the outcome of no check on another
\* channel: whatever the other channel's next check would have answered at
\* any later clock reading, it still answers after the call.
C22_ChannelsIndependent ==
    [][(notified'.n = notified.n + 1 /\ notified'.result.checked)
       => \A other \in Channels \ {notified'.result.channel} :
          \A t \in now..MaxTime :
              LET before == CheckRateLimit(GetRateLimitManager(rate_limit_manager, config_data),
                                           other, t)
                  after == CheckRateLimit(rate_limit_manager', other, t)
              IN before.ok = after.ok /\ before.raised = after.raised]_vars

\* One channel has just been denied while the other, which has a limit and
\* was checked before, would be allowed.
C22_Witness ==
    /\ notified.result.checked
    /\ notified.result.consulted
    /\ ~notified.result.allowed
    /\ \E other \in Channels \ {notified.result.channel} :
           /\ other \in DOMAIN rate_limit_manager.limits
           /\ notified.allowed[other] > 0
           /\ CheckRateLimit(rate_limit_manager, other, now).ok

\* C23: loading the rate-limit configuration always completes; the limits it
\* holds are those of the entries that have calls and period, both integers,
\* each kept with its values, and every other entry is left out.
C23_MalformedEntriesSkipped ==
    notified.result.channel # "none" =>
        /\ rate_limit_manager.made
        /\ \A ch \in Channels :
               LET entry == config_data[ch]
                   valid == /\ entry.kind = "dict"
                            /\ entry.calls.t = "int"
                            /\ entry.period.t = "int"
               IN /\ ch \in DOMAIN rate_limit_manager.limits <=> valid
                  /\ valid => rate_limit_manager.limits[ch] =
                                  [calls |-> entry.calls.v, period |-> entry.period.v]

\* C24: every limit the configuration of the rate limit manager holds has
\* calls > 0 and period > 0.
C24_LimitsPositive ==
    \A ch \in DOMAIN rate_limit_manager.limits :
        rate_limit_manager.limits[ch].calls > 0 /\ rate_limit_manager.limits[ch].period > 0

\* C25: a notify whose rate limit check returns false returns a failure with
\* the error "Rate limit exceeded" without invoking the notifier, and for every
\* channel the notifier has been invoked at most as often as checks allowed.
C25_DeniedNotifyNotDelivered ==
    /\ (/\ notified.result.checked
        /\ notified.result.fault = "none"
        /\ ~notified.result.allowed)
           => /\ notified.result.success = "false"
              /\ notified.result.error = "Rate limit exceeded"
              /\ ~notified.result.invoked
    /\ \A ch \in Channels : notified.invoked[ch] <= notified.allowed[ch]

\* A channel whose notifier has run is denied.
C25_Witness ==
    /\ notified.result.checked
    /\ notified.result.consulted
    /\ ~notified.result.allowed
    /\ notified.result.error = "Rate limit exceeded"
    /\ notified.invoked[notified.result.channel] > 0

\* C26: every call of notify returns a result: no exception leaves it, the
\* result carries a success flag, and a result whose success is false carries
\* an error string.
C26_NotifyAlwaysReturnsResult ==
    notified.n > 0 =>
        /\ notified.result.fault = "none"
        /\ notified.result.success \in {"true", "false"}
        /\ notified.result.success = "false" => notified.result.error # "none"

\* --------------------------------------------------------- claims: endpoint

\* C27: when a frame is received that is undecodable text, or JSON that is
\* no object, and the websocket takes the write, the sender is sent
\* {type: "error", message: "Invalid JSON"} and nothing else, a registered
\* connection stays registered, and the receive loop goes on.
C27_MalformedFrameAnswered ==
    [][(/\ ep'.frames = ep.frames + 1
        /\ ep'.frame.kind \in {"text", "json"}
        /\ ep'.sendok)
       => /\ ep'.sent = Append(ep.sent, Msg("error", NoTimestamp, "Invalid JSON"))
          /\ Socket \in DOMAIN connection_info => Socket \in DOMAIN connection_info'
          /\ ep'.pc = "loop"]_vars

\* C28: a received {"type": "ping", "timestamp": T} invokes no handler,
\* whatever handlers are registered, and when the websocket takes the write
\* exactly one message is written for it: {"type": "pong", "timestamp": T}.
C28_PingAnsweredWithPong ==
    [][(/\ ep'.frames = ep.frames + 1
        /\ ep'.frame.kind = "object"
        /\ ep'.frame.keys = {"type", "timestamp"}
        /\ ep'.frame.type = "ping")
       => /\ ep'.handled = ep.handled
          /\ ep'.sendok =>
                 ep'.sent = Append(ep.sent, [type |-> "pong",
                                             timestamp |-> ep'.frame.timestamp,
                                             message |-> "none"])]_vars

\* A ping stamped 2 has been answered while a handler is registered for "ping".
C28_Witness ==
    /\ ep.frame.kind = "object"
    /\ ep.frame.keys = {"type", "timestamp"}
    /\ ep.frame.type = "ping"
    /\ ep.frame.timestamp = 2
    /\ "ping" \in ep.handlers
    /\ ep.sendok
    /\ ep.sent # <<>>
    /\ ep.sent[Len(ep.sent)] = [type |-> "pong", timestamp |-> 2, message |-> "none"]
    /\ ep.handled = <<>>

\* C29: an endpoint called without token, or whose authentication function
\* returned None, has closed the websocket exactly once, has not accepted it
\* and has not registered it.
C29_UnauthenticatedClosedOnce ==
    (ep.pc # "idle" /\ (~ep.token \/ ep.authed = "None")) =>
        /\ ep.closes = 1
        /\ ep.accepts = 0
        /\ ~Present(Registry, Socket)

\* C30: an endpoint whose authentication function returned an identity
\* without user_id, the empty one or one with groups only, has closed the
\* websocket exactly once, has not accepted it and has not registered it.
C30_IdentityWithoutUserClosedOnce ==
    (ep.authed = "dict" /\ GetUserId(ep.user_info) = None) =>
        /\ ep.closes = 1
        /\ ep.accepts = 0
        /\ ~Present(Registry, Socket)

\* ---------------------------------------------------- claims: registry, II

\* C31: a registered handle whose identity has no user_id is in no set of the
\* user index, no send_to_user, send_to_users or broadcast that no other task
\* disturbed has written to it, and a send_to_group to one of its groups that
\* no other task disturbed has written to it.
C31_UserlessHandleOnlyViaGroups ==
    \A h \in DOMAIN connection_info :
        GetUserId(connection_info[h]) = None =>
            /\ ~InUserIndex(Registry, h)
            /\ (Ended({"user", "users", "broadcast"}) /\ ~last.call.ext)
                   => h \notin Written(last.call)
            /\ (/\ Ended({"group"})
                /\ ~last.call.ext
                /\ last.call.loops[1].key \in GetGroups(connection_info[h]))
                   => h \in Written(last.call)

\* C32: while a send_to_user waits for a write to one handle to complete, the
\* write to every other handle the user had when the call was made has been
\* started as well: no handle of the user waits for another handle's write.
C32_UserWritesStartTogether ==
    \A c \in CallIds :
        (calls[c].kind = "user" /\ calls[c].st = "running") =>
            calls[c].targets \subseteq
                Written(calls[c]) \cup WritingIn(calls[c].loops, DOMAIN calls[c].loops)

\* C33: in every registry state and for every handle h, disconnect(h) called
\* again after disconnect(h) leaves the registry as the first call left it,
\* and disconnect(h) of a handle that has no identity entry changes nothing.
C33_DisconnectIdempotent ==
    \A h \in Handles :
        /\ Unregister(Unregister(Registry, h), h) = Unregister(Registry, h)
        /\ h \notin DOMAIN connection_info => Unregister(Registry, h) = Registry

\* A handle that was disconnected has no identity entry while a user set
\* still holds it, and the other handle is registered in a user and a group set.
C33_Witness ==
    \E h \in Handles :
        /\ h \notin DOMAIN connection_info
        /\ InUserIndex(Registry, h)
        /\ \E o \in Handles \ {h} :
               /\ o \in DOMAIN connection_info
               /\ InUserIndex(Registry, o)
               /\ Unregister(Registry, o) # Registry

\* C34: a send_to_user for a user that is in no set of the user index returns
\* normally at once, has issued no write and leaves the three indexes as
\* they were.
C34_UnknownUserIsNoOp ==
    [][(/\ ops' = ops + 1
        /\ last'.op \in {"call", "dispatch"}
        /\ last'.call.kind = "user"
        /\ last'.call.loops[1].key \notin DOMAIN user_connections)
       => /\ last'.op = "dispatch"
          /\ last'.st = "returned"
          /\ Written(last'.call) = {}
          /\ WritingIn(last'.call.loops, {1}) = {}
          /\ Registry' = Registry]_vars

\* A send_to_user for u2 has returned while only u1 is connected.
C34_Witness ==
    /\ Ended({"user"})
    /\ last.st = "returned"
    /\ last.call.loops[1].key = "u2"
    /\ last.call.targets = {}
    /\ DOMAIN user_connections = {"u1"}

\* C35: the users that get_stats() reports are exactly the user ids of the
\* identities of the registered handles, total_users is their number, the
\* groups it reports are exactly the groups of those identities, and no key
\* of the user index or of the group index holds an empty set.
C35_StatsReportLiveUsers ==
    LET live == DOMAIN connection_info
    IN /\ GetStats(Registry).users = {GetUserId(connection_info[h]) : h \in live} \ {None}
       /\ GetStats(Registry).total_users =
              Cardinality({GetUserId(connection_info[h]) : h \in live} \ {None})
       /\ GetStats(Registry).groups = UNION {GetGroups(connection_info[h]) : h \in live}
       /\ \A u \in DOMAIN user_connections : user_connections[u] # {}
       /\ \A g \in DOMAIN group_connections : group_connections[g] # {}

\* C36: every handle to which a dispatch call has written its message is a
\* handle on which a connect() has written the acknowledgement before.
C36_AckWrittenFirst ==
    /\ \A c \in CallIds : \A h \in calls[c].got : ack[h] = "written"
    /\ \A h \in last.call.got : ack[h] = "written"

\* C37: no dispatch call writes its message twice to one handle: the
\* coroutines of an asynchronous call start one write at most to each handle,
\* and those that a blocking-caller variant runs call send_json once at most
\* on each handle.
C37_AtMostOneWritePerHandle ==
    /\ last.dup = {}
    /\ \A h \in Handles : sched.wrote[h] <= 1

\* C38: with max_calls >= 1 (and a period of at least one second), the checks
\* of a key that were allowed up to any check, made at the clock reading t,
\* are max_calls + (t - t0) * max_calls / period at most, t0 being the reading
\* of the key's first check.
C38_TokenBucketRateBound ==
    (cfg.calls >= 1 /\ cfg.period >= 1) =>
        \A j \in 1..Len(log) :
            Cardinality(AllowedIn(0, j)) * cfg.period
                <= cfg.calls * cfg.period + (log[j].t - log[1].t) * cfg.calls

\* Time has elapsed since the first check, as many checks were allowed as the
\* bound admits, and the next check at that reading was denied.
C38_Witness ==
    /\ cfg.calls >= 1 /\ cfg.period >= 2
    /\ \E j \in 2..(Len(log) - 1) :
           /\ log[j].t > log[1].t
           /\ log[j].ok
           /\ (Cardinality(AllowedIn(0, j)) + 1) * cfg.period
                  > cfg.calls * cfg.period + (log[j].t - log[1].t) * cfg.calls
           /\ SameReading(j, j + 1)
           /\ Denied(j + 1)

\* C39: in every trailing interval of period seconds, the checks of the key
\* that the store answered and that returned true are max_calls at most,
\* checks made at one clock reading included.
C39_SlidingWindowRateBound ==
    \A j \in 1..Len(log) :
        Cardinality({k \in 1..j : /\ log[k].ok /\ ~log[k].failed
                                   /\ log[j].t - log[k].t < cfg.period}) <= cfg.calls

\* C40: once the websocket endpoint of a handle has returned, for whatever
\* reason, the handle is in no index of the registry: not in the set of a
\* user, not in the set of a group, not in the identity back-reference.
C40_NoHandleOutlivesItsEndpoint ==
    ep.pc = "done" => ~Present(Registry, Socket)

\* The endpoint had registered its handle under a user and a group, and it
\* has returned because a message handler raised.
C40_Witness ==
    /\ ep.pc = "done"
    /\ ep.accepts = 1
    /\ GetUserId(ep.user_info) = "u1" /\ GetGroups(ep.user_info) # {}
    /\ ep.frame.kind = "object" /\ GetType(ep.frame) \in ep.handlers
    /\ ep.sendok
    /\ ~Present(Registry, Socket)

====
